---------------------------- MODULE Spec2Model ----------------------------
(***************************************************************************)
(* Data table engine of the app framework: the pagination, column order,   *)
(* drag-reorder, column resize and column visibility hooks, modelled as    *)
(* state machines.  Each hook has its own specification; the variables of  *)
(* the other hooks stay at their idle values under it.                     *)
(*                                                                         *)
(* List indices are the 0-based indices of the TypeScript source; the      *)
(* operators At/IndexOf/Splice convert to TLA+ sequences.                  *)
(***************************************************************************)
EXTENDS Integers, Sequences, FiniteSets, TLC

VARIABLES
    \* ---- usePagination
    pgMounted,        \* the hook is mounted
    page,             \* state.page
    pageSize,         \* state.pageSize
    dataLen,          \* data.length (the data prop)
    initialPageSize,  \* the pageSize option
    pgStore,          \* localStorage[`pagination-${storageKey}`]
    pgDirty,          \* a render was committed whose effects have not run yet
    pgLastOp,         \* the last operation of the hook (history)
    pgLastCall,       \* the last navigation call: its argument and what it saw (history)
    \* ---- useColumnOrder
    ordMounted,       \* the hook is mounted
    defaultOrder,     \* the defaultOrder option (canonical order)
    ordStore,         \* localStorage[storageKey] of the order hook
    columnOrder,      \* the columnOrder state
    ordDirty,         \* a render was committed whose persist effect has not run yet
    loadedFrom,       \* the stored value the last mount read (history)
    ordLastOp,        \* the last operation of the hook (history)
    ordLastCall,      \* the last moveColumn / moveColumnById call and the order it found (history)
    \* ---- useColumnDragDrop (as wired by DataTable)
    lockedColumns,    \* the lockedColumns prop of DataTable
    dragState,        \* {isDragging, draggedId, dropIndex}
    lastEvent,        \* the last drag event delivered (history)
    lastDrop,         \* what the last drop saw and whether it called moveColumn (history)
    orderBefore,      \* columnOrder before the last drop (history)
    moveCalls,        \* moveColumn calls since the last dragstart (history)
    \* ---- useResizableColumns
    rsMounted,        \* the hook is mounted
    widths,           \* state.widths (0: no entry)
    isResizing,       \* state.isResizing
    resizingColumn,   \* state.resizingColumn
    startX,           \* startXRef.current
    startWidth,       \* startWidthRef.current
    activeColumn,     \* activeColumnRef.current
    hasDragged,       \* hasDraggedRef.current
    widthsRef,        \* widthsRef.current
    listeners,        \* the document events the hook's handlers are registered for
    bodyStyle,        \* document.body.style: cursor and userSelect
    pageBody,         \* the cursor and userSelect the page itself keeps on the body
    rsStore,          \* localStorage[effectiveStorageKey]
    rsDirty,          \* a render was committed whose effects have not run yet
    rsLastOp,         \* the last operation of the hook (history)
    rsLastX,          \* clientX of the last pointermove (history)
    gestures,         \* pointerdowns so far (history, bounds the model)
    \* ---- useColumnVisibility
    visMounted,       \* the hook is mounted
    visColumns,       \* the columns option: id -> {locked, defaultVisible}
    visibleColumns,   \* the visibleColumns state: id -> JavaScript value
    visStore,         \* localStorage[`column-visibility-${storageKey}`]
    visDirty,         \* a render was committed whose persist effect has not run yet
    visLastOp,        \* the last operation of the hook and its argument (history)
    visPrev,          \* visibleColumns before the last operation (history)
    \* ---- DataTable row selection (controlled by the parent)
    selectedIds,      \* the selectedIds prop: the set the parent last received
    selLastOp,        \* the last selection helper called and the page it saw (history)
    \* ---- LogViewer
    lvMounted,        \* the component is mounted
    onFetchLogs,      \* the onFetchLogs prop is given
    onFetchArchives,  \* the onFetchArchives prop is given
    autoRefreshMs,    \* the autoRefreshMs prop
    maxEntries,       \* the maxEntries prop (0: no cap)
    newestFirst,      \* the newestFirst prop
    liveUpdates,      \* onLogReceived is given and enableLiveUpdates is true
    externalLogs,     \* the logs prop
    logs,             \* the logs state: the entry list
    logFiles,         \* the logFiles state: the archive list
    loading,          \* the loading state
    activeCategory,   \* the activeCategory state
    autoRefreshOn,    \* the autoRefreshOn state
    autoRefreshRef,   \* autoRefreshRef.current: an interval id, 0 for null
    archivesFetchedRef, \* archivesFetchedRef.current
    timers,           \* the interval timers that are active in the runtime
    inflight,         \* the fetch promises that have not settled
    lvDirty,          \* the effects of the committed render that have not run yet
    lvLastOp,         \* the last step of the component (history)
    pushed,           \* the entries received on the live subscription (history)
    lvCount,          \* the steps of the user, the parent and the timers so far and their limit (bounds the model)
    \* ---- localStorage as the four persisting hooks see it
    storageThrows,    \* getItem and setItem throw (storage disabled, quota exceeded)
    underTest,        \* the hook the table under test uses ("none": any)
    tableKeys,        \* the storageKey props of two DataTable instances on one origin
    sharedStorage,    \* localStorage of the origin: who wrote the value under each key
    raised            \* an exception of a storage access reached the caller of a hook

pgVars   == <<pgMounted, page, pageSize, dataLen, initialPageSize, pgStore, pgDirty, pgLastOp,
             pgLastCall>>
ordVars  == <<ordMounted, defaultOrder, ordStore, columnOrder, ordDirty, loadedFrom, ordLastOp,
             ordLastCall>>
dragVars == <<lockedColumns, dragState, lastEvent, lastDrop, orderBefore, moveCalls>>
rsVars   == <<rsMounted, widths, isResizing, resizingColumn, startX, startWidth,
             activeColumn, hasDragged, widthsRef, listeners, bodyStyle, pageBody, rsStore,
             rsDirty, rsLastOp, rsLastX, gestures>>
visVars  == <<visMounted, visColumns, visibleColumns, visStore, visDirty, visLastOp, visPrev>>
selVars  == <<selectedIds, selLastOp>>
lvVars   == <<lvMounted, onFetchLogs, onFetchArchives, autoRefreshMs, maxEntries,
             newestFirst, liveUpdates, externalLogs, logs, logFiles, loading,
             activeCategory, autoRefreshOn, autoRefreshRef, archivesFetchedRef,
             timers, inflight, lvDirty, lvLastOp, pushed, lvCount>>
stVars   == <<storageThrows, underTest, tableKeys, sharedStorage>>
vars     == <<pgVars, ordVars, dragVars, rsVars, visVars, selVars, lvVars, stVars, raised>>

\* What a storage access of one hook leaves alone: the state of the other
\* hooks and the storage's health
pgPeers    == <<ordVars, dragVars, rsVars, visVars, selVars, lvVars, stVars>>
ordPeers   == <<pgVars, dragVars, rsVars, visVars, selVars, lvVars, stVars>>
rsPeers    == <<pgVars, ordVars, dragVars, visVars, selVars, lvVars, stVars>>
visPeers   == <<pgVars, ordVars, dragVars, rsVars, selVars, lvVars, stVars>>

\* What the other operations of one hook leave alone
pgOthers   == <<pgPeers, raised>>
ordOthers  == <<ordPeers, raised>>
dragOthers == <<pgVars, rsVars, visVars, selVars, lvVars, stVars, raised>>
rsOthers   == <<rsPeers, raised>>
visOthers  == <<visPeers, raised>>
selOthers  == <<pgVars, ordVars, dragVars, rsVars, visVars, lvVars, stVars, raised>>
lvOthers   == <<pgVars, ordVars, dragVars, rsVars, visVars, selVars, stVars, raised>>

---------------------------------------------------------------------------
\* Helpers

Max(a, b) == IF a >= b THEN a ELSE b
Min(a, b) == IF a <= b THEN a ELSE b

\* Math.ceil(a / b) for a >= 0, b >= 1
CeilDiv(a, b) == (a + b - 1) \div b

Range(s) == {s[i] : i \in 1..Len(s)}

\* All sequences over S of length at most n
SeqsUpTo(S, n) == UNION {[1..k -> S] : k \in 0..n}

\* Array.prototype.indexOf: 0-based index of the first occurrence, or -1
IndexOf(s, x) ==
    IF \E i \in 1..Len(s) : s[i] = x
    THEN (CHOOSE i \in 1..Len(s) : s[i] = x /\ \A j \in 1..(i - 1) : s[j] # x) - 1
    ELSE -1

\* s[i] with a 0-based index i
At(s, i) == s[i + 1]

\* The start index Array.prototype.splice uses for a given argument
SpliceStart(len, start) ==
    IF start < 0 THEN Max(len + start, 0) ELSE Min(start, len)

\* s.splice(start, 1): the array left
SpliceRemove(s, start) ==
    LET k == SpliceStart(Len(s), start)
    IN  IF k >= Len(s) THEN s
        ELSE SubSeq(s, 1, k) \o SubSeq(s, k + 2, Len(s))

\* s.splice(start, 0, x): the array with x inserted
SpliceInsert(s, start, x) ==
    LET k == SpliceStart(Len(s), start)
    IN  SubSeq(s, 1, k) \o <<x>> \o SubSeq(s, k + 1, Len(s))

---------------------------------------------------------------------------
\* Bounds of the model

MaxItems    == 7     \* data.length ranges over 0..MaxItems
MaxPageSize == 3     \* page sizes range over 1..MaxPageSize
NumCols     == 4     \* the canonical order of the load model has at most NumCols ids
MaxStored   == 4     \* a stored order list has at most MaxStored entries
NumDragCols == 3     \* data columns of the table of the drag model
MaxCalls    == 2     \* cap of the moveColumn call counter
MaxGestures == 2     \* pointerdowns on resize handles in one run
MaxSelRows  == 5     \* data.length of the selection model ranges over 0..MaxSelRows
MaxTs       == 2     \* timestamps of log entries range over 1..MaxTs
MaxBatch    == 3     \* a fetched batch of log entries has at most MaxBatch entries
MaxExternal == 2     \* the logs prop has at most MaxExternal entries
MaxCap      == 2     \* the maxEntries prop ranges over 0..MaxCap
MaxPushes   == 2     \* entries delivered on the live subscription in one run
MaxTimers   == 2     \* interval ids the runtime hands out
MaxSteps    == 3     \* steps of the user, the parent and the timers in one run

---------------------------------------------------------------------------
\* usePagination

None == [kind |-> "none"]          \* nothing stored under the key
Garbage == [kind |-> "garbage"]    \* a stored string JSON.parse or its use throws on
Thrown == [kind |-> "thrown"]      \* localStorage.getItem threw

\* The stored value as the try block of an initialiser gets it
ReadStorage(stored) == IF storageThrows THEN Thrown ELSE stored

\* The try block of an initialiser throws: getItem, JSON.parse or the use of
\* the parsed value
ReadThrows(stored) == ReadStorage(stored) \in {Thrown, Garbage}

\* The storage cell after localStorage.setItem(key, value)
WriteStorage(stored, value) == IF storageThrows THEN stored ELSE value

\* A try block without its catch
EscapesUncaught(thrown) == thrown

\* try { ... } catch { ... }: the catch block logs or ignores what the try
\* block threw, nothing reaches the caller
Escapes(thrown) == FALSE

\* No second table on the origin
KeysIdle ==
    /\ tableKeys = <<>>
    /\ sharedStorage = <<>>

StorageIdle ==
    /\ storageThrows = FALSE
    /\ underTest = "none"
    /\ raised = FALSE
    /\ KeysIdle

PageSizes == 1..MaxPageSize

\* Stored values of the pagination key: absent, unparsable, or {pageSize: v}
\* (v = 0 stands for a missing or falsy pageSize field)
PgStoreValues ==
    {None, Garbage} \cup {[kind |-> "obj", pageSize |-> v] : v \in 0..MaxPageSize}

\* useState initialiser: the page size read from storage
LoadPageSize(stored, initial) ==
    IF stored.kind = "obj" /\ stored.pageSize # 0 THEN stored.pageSize ELSE initial

\* totalPages = Math.max(1, Math.ceil(data.length / pageSize))
TotalPagesOf(n, size) == Max(1, CeilDiv(n, size))

totalPages == TotalPagesOf(dataLen, pageSize)

\* The clamp effect without its clamp
ClampedPageUnclamped(p, tp) == p

\* A clamp effect that resets to the first page
ClampedPageToFirst(p, tp) == IF p > tp THEN 1 ELSE p

\* The clamp effect: if (page > totalPages) page = Math.max(1, totalPages)
ClampedPage(p, tp) == IF p > tp THEN Max(1, tp) ELSE p

\* setPage without its lower clamp
SetPageValueNoFloor(newPage, tp) == Min(newPage, tp)

\* setPage: Math.max(1, Math.min(newPage, totalPages))
SetPageValue(newPage, tp) == Max(1, Min(newPage, tp))

\* setPageSize keeping the page it was called on
SetPageSizeValueKeepingPage(prev, newSize) == [page |-> prev.page, pageSize |-> newSize]

\* setPageSize: setState({ page: 1, pageSize: newSize })
SetPageSizeValue(prev, newSize) == [page |-> 1, pageSize |-> newSize]

\* A persisted value that carries the page as well
PersistedStateWithPage(p, size) == [kind |-> "obj", pageSize |-> size, page |-> p]

\* The persist effect: JSON.stringify({ pageSize }) of the state (page, pageSize)
PersistedState(p, size) == [kind |-> "obj", pageSize |-> size]

\* What a navigation call got and saw: its argument and the page of the
\* render it was called on
Call(arg) == [arg |-> arg, page |-> page]

NoCall == [arg |-> 0, page |-> 0]

PaginationIdle ==
    /\ pgMounted = FALSE
    /\ page = 1
    /\ pageSize = 1
    /\ dataLen = 0
    /\ initialPageSize = 1
    /\ pgStore = None
    /\ pgDirty = FALSE
    /\ pgLastOp = "none"
    /\ pgLastCall = NoCall

PaginationInit ==
    /\ pgMounted = FALSE
    /\ page = 1
    /\ pageSize = 1
    /\ dataLen \in 0..MaxItems
    /\ initialPageSize \in PageSizes
    /\ pgStore \in PgStoreValues
    /\ pgDirty = FALSE
    /\ pgLastOp = "none"
    /\ pgLastCall = NoCall

\* Mount: the useState initialiser, then the first render is committed
MountPagination ==
    /\ ~pgMounted
    /\ pgMounted' = TRUE
    /\ page' = 1
    /\ pageSize' = LoadPageSize(ReadStorage(pgStore), initialPageSize)
    /\ raised' = (raised \/ Escapes(ReadThrows(pgStore)))
    /\ pgDirty' = TRUE
    /\ pgLastOp' = "mount"
    /\ UNCHANGED <<dataLen, initialPageSize, pgStore, pgLastCall, pgPeers>>

\* The effects of the committed render: the clamp effect and the persist
\* effect.  A state change made by the clamp effect commits another render,
\* whose effects are then pending again.
PaginationEffects ==
    /\ pgMounted /\ pgDirty
    /\ page' = ClampedPage(page, totalPages)
    /\ pgStore' = WriteStorage(pgStore, PersistedState(page, pageSize))
    /\ raised' = (raised \/ Escapes(storageThrows))
    /\ pgDirty' = (page' # page)
    /\ pgLastOp' = IF page' # page THEN "clamp" ELSE pgLastOp
    /\ UNCHANGED <<pgMounted, pageSize, dataLen, initialPageSize, pgLastCall, pgPeers>>

\* Event handlers run on a committed render whose effects have run
PgReady == pgMounted /\ ~pgDirty

SetPageTo(newPage, op) ==
    /\ PgReady
    /\ page' = SetPageValue(newPage, totalPages)
    /\ pgDirty' = (page' # page)
    /\ pgLastOp' = op
    /\ pgLastCall' = Call(newPage)
    /\ UNCHANGED <<pgMounted, pageSize, dataLen, initialPageSize, pgStore, pgOthers>>

SetPage == \E newPage \in -1..(MaxItems + 2) : SetPageTo(newPage, "setPage")

NextPage == SetPageTo(page + 1, "nextPage")

PrevPage == SetPageTo(page - 1, "prevPage")

FirstPage == SetPageTo(1, "firstPage")

LastPage == SetPageTo(totalPages, "lastPage")

SetPageSize ==
    \E newSize \in PageSizes :
        LET next == SetPageSizeValue([page |-> page, pageSize |-> pageSize], newSize)
        IN  /\ PgReady
            /\ page' = next.page
            /\ pageSize' = next.pageSize
            /\ pgDirty' = TRUE
            /\ pgLastOp' = "setPageSize"
            /\ pgLastCall' = Call(newSize)
            /\ UNCHANGED <<pgMounted, dataLen, initialPageSize, pgStore, pgOthers>>

\* The parent renders the table with data of another length
ChangeData ==
    \E n \in 0..MaxItems :
        /\ PgReady
        /\ n # dataLen
        /\ dataLen' = n
        /\ pgDirty' = TRUE
        /\ pgLastOp' = "data"
        /\ UNCHANGED <<pgMounted, page, pageSize, initialPageSize, pgStore, pgLastCall,
                       pgOthers>>

UnmountPagination ==
    /\ PgReady
    /\ pgMounted' = FALSE
    /\ pgLastOp' = "unmount"
    /\ UNCHANGED <<page, pageSize, dataLen, initialPageSize, pgStore, pgDirty, pgLastCall,
                   pgOthers>>

PaginationNext ==
    \/ MountPagination
    \/ PaginationEffects
    \/ SetPage
    \/ NextPage
    \/ PrevPage
    \/ FirstPage
    \/ LastPage
    \/ SetPageSize
    \/ ChangeData
    \/ UnmountPagination


---------------------------------------------------------------------------
\* useColumnOrder

ColumnIds == <<"a", "b", "c", "d", "e", "f">>

\* An id no column definition has (a removed column)
UnknownId == "x"

\* No move call yet
NoOrdCall == [op |-> "none", from |-> 0, to |-> 0]

StoredList(l) == [kind |-> "list", val |-> l]

\* The canonical orders of the load model.  The hook only compares ids for
\* equality, so a canonical order of k distinct ids is taken to be the
\* first k ids of ColumnIds.
CanonicalOrders == {SubSeq(ColumnIds, 1, k) : k \in 0..NumCols}

\* Stored values of the order key for canonical order c: absent, unparsable
\* (or not an array), or any list over the ids of c and an unknown id
OrdStoreValues(c) ==
    {None, Garbage} \cup
    {StoredList(l) : l \in SeqsUpTo(Range(c) \cup {UnknownId}, MaxStored)}

\* The insertion point of a missing column: the index of the first element
\* of result whose default index is greater, else result.length
InsertAt(result, defaultIndex, order) ==
    LET later == {i \in 0..(Len(result) - 1) :
                     IndexOf(order, At(result, i)) > defaultIndex}
    IN  IF later = {} THEN Len(result)
        ELSE CHOOSE i \in later : \A j \in later : i <= j

\* for (const missing of missingColumns) result.splice(insertAt, 0, missing)
RECURSIVE InsertMissing(_, _, _)
InsertMissing(result, missingColumns, order) ==
    IF missingColumns = <<>> THEN result
    ELSE LET missing == Head(missingColumns)
             insertAt == InsertAt(result, IndexOf(order, missing), order)
         IN  InsertMissing(SpliceInsert(result, insertAt, missing),
                           Tail(missingColumns), order)

\* The reconciliation with result = [...parsed] in place of [...validStored]
ReconcileKeepingUnknown(parsed, order) ==
    LET validStored == SelectSeq(parsed, LAMBDA col : col \in Range(order))
        missingColumns == SelectSeq(order, LAMBDA col : col \notin Range(parsed))
    IN  IF Len(missingColumns) > 0
        THEN InsertMissing(parsed, missingColumns, order)
        ELSE IF Len(validStored) > 0 THEN validStored ELSE order

\* The reconciliation that appends the missing columns at the end
ReconcileAppending(parsed, order) ==
    LET validStored == SelectSeq(parsed, LAMBDA col : col \in Range(order))
        missingColumns == SelectSeq(order, LAMBDA col : col \notin Range(parsed))
    IN  IF Len(missingColumns) > 0
        THEN validStored \o missingColumns
        ELSE IF Len(validStored) > 0 THEN validStored ELSE order

\* The reconciliation of a parsed stored list against the default order
Reconcile(parsed, order) ==
    LET validStored == SelectSeq(parsed, LAMBDA col : col \in Range(order))
        missingColumns == SelectSeq(order, LAMBDA col : col \notin Range(parsed))
    IN  IF Len(missingColumns) > 0
        THEN InsertMissing(validStored, missingColumns, order)
        ELSE IF Len(validStored) > 0 THEN validStored ELSE order

\* useState initialiser of columnOrder
LoadOrder(stored, order) ==
    IF stored.kind = "list" THEN Reconcile(stored.val, order) ELSE order

OrderIdle ==
    /\ ordMounted = FALSE
    /\ defaultOrder = <<>>
    /\ ordStore = None
    /\ columnOrder = <<>>
    /\ ordDirty = FALSE
    /\ loadedFrom = None
    /\ ordLastOp = "none"
    /\ ordLastCall = NoOrdCall

OrderInit ==
    /\ ordMounted = FALSE
    /\ defaultOrder \in CanonicalOrders
    /\ ordStore \in OrdStoreValues(defaultOrder)
    /\ columnOrder = <<>>
    /\ ordDirty = FALSE
    /\ loadedFrom = None
    /\ ordLastOp = "none"
    /\ ordLastCall = NoOrdCall

\* The array in reverse
Reversed(s) == [i \in 1..Len(s) |-> s[Len(s) + 1 - i]]

\* Start of the move model: nothing stored, an unparsable value, the default
\* order reversed, or a list that names the first column twice
OrderMoveInit ==
    /\ ordMounted = FALSE
    /\ defaultOrder \in CanonicalOrders
    /\ ordStore \in {None, Garbage, StoredList(Reversed(defaultOrder)),
                     StoredList(SubSeq(defaultOrder, 1, Min(1, Len(defaultOrder)))
                                \o SubSeq(defaultOrder, 1, Min(1, Len(defaultOrder))))}
    /\ columnOrder = <<>>
    /\ ordDirty = FALSE
    /\ loadedFrom = None
    /\ ordLastOp = "none"
    /\ ordLastCall = NoOrdCall

\* Mount: the useState initialiser, then the first render is committed
MountOrder ==
    /\ ~ordMounted
    /\ ordMounted' = TRUE
    /\ columnOrder' = LoadOrder(ReadStorage(ordStore), defaultOrder)
    /\ loadedFrom' = ReadStorage(ordStore)
    /\ raised' = (raised \/ Escapes(ReadThrows(ordStore)))
    /\ ordDirty' = TRUE
    /\ ordLastOp' = "load"
    /\ UNCHANGED <<defaultOrder, ordStore, ordLastCall, ordPeers>>

\* The persist effect: localStorage.setItem(storageKey, JSON.stringify(columnOrder))
OrderPersistEffect ==
    /\ ordMounted /\ ordDirty
    /\ ordStore' = WriteStorage(ordStore, StoredList(columnOrder))
    /\ raised' = (raised \/ Escapes(storageThrows))
    /\ ordDirty' = FALSE
    /\ UNCHANGED <<ordMounted, defaultOrder, columnOrder, loadedFrom, ordLastOp, ordLastCall,
                   ordPeers>>

OrdReady == ordMounted /\ ~ordDirty

\* A moveColumn that drops the element it removed
MovedOrderDropping(prev, fromIndex, toIndex) == SpliceRemove(prev, fromIndex)

\* setColumnOrder updater of moveColumn
MovedOrder(prev, fromIndex, toIndex) ==
    LET k == SpliceStart(Len(prev), fromIndex)
    IN  IF k >= Len(prev) THEN prev     \* removed === undefined
        ELSE SpliceInsert(SpliceRemove(prev, fromIndex), toIndex, At(prev, k))

\* moveColumn(fromIndex, toIndex)
MoveColumnResult(prev, fromIndex, toIndex) ==
    IF fromIndex = toIndex THEN prev ELSE MovedOrder(prev, fromIndex, toIndex)

\* newIndex of moveColumnById
NewIndexById(prev, columnId, direction) ==
    IF direction = "left" THEN Max(0, IndexOf(prev, columnId) - 1)
    ELSE Min(Len(prev) - 1, IndexOf(prev, columnId) + 1)

\* setColumnOrder updater of moveColumnById
MovedById(prev, columnId, direction) ==
    LET currentIndex == IndexOf(prev, columnId)
        newIndex == NewIndexById(prev, columnId, direction)
    IN  IF currentIndex = -1 \/ currentIndex = newIndex THEN prev
        ELSE MovedOrder(prev, currentIndex, newIndex)

\* The indices a move call worked with
OrdCall(op, fromIndex, toIndex) == [op |-> op, from |-> fromIndex, to |-> toIndex]

\* moveColumn(fromIndex, toIndex) with any indices, also negative and
\* out-of-range ones
MoveColumn ==
    \E fromIndex, toIndex \in -1..NumCols :
        /\ OrdReady
        /\ columnOrder' = MoveColumnResult(columnOrder, fromIndex, toIndex)
        /\ ordDirty' = (columnOrder' # columnOrder)
        /\ ordLastOp' = "moveColumn"
        /\ ordLastCall' = OrdCall("moveColumn", fromIndex, toIndex)
        /\ UNCHANGED <<ordMounted, defaultOrder, ordStore, loadedFrom, ordOthers>>

\* moveColumnById(columnId, direction)
MoveColumnById ==
    \E columnId \in Range(ColumnIds) \cup {UnknownId}, direction \in {"left", "right"} :
        /\ OrdReady
        /\ columnOrder' = MovedById(columnOrder, columnId, direction)
        /\ ordDirty' = (columnOrder' # columnOrder)
        /\ ordLastOp' = "moveColumnById"
        /\ ordLastCall' = OrdCall("moveColumnById", IndexOf(columnOrder, columnId),
                                NewIndexById(columnOrder, columnId, direction))
        /\ UNCHANGED <<ordMounted, defaultOrder, ordStore, loadedFrom, ordOthers>>

ResetOrder ==
    /\ OrdReady
    /\ columnOrder' = defaultOrder
    /\ ordDirty' = (columnOrder' # columnOrder)
    /\ ordLastOp' = "reset"
    /\ UNCHANGED <<ordMounted, defaultOrder, ordStore, loadedFrom, ordLastCall, ordOthers>>

UnmountOrder ==
    /\ OrdReady
    /\ ordMounted' = FALSE
    /\ ordLastOp' = "unmount"
    /\ UNCHANGED <<defaultOrder, ordStore, columnOrder, ordDirty, loadedFrom, ordLastCall,
                   ordOthers>>

OrderLoadNext ==
    \/ MountOrder
    \/ OrderPersistEffect
    \/ ResetOrder
    \/ UnmountOrder

\* The order hook under move calls
OrderMoveNext ==
    \/ MountOrder
    \/ OrderPersistEffect
    \/ MoveColumn
    \/ MoveColumnById

---------------------------------------------------------------------------
\* useColumnDragDrop, as DataTable wires it to useColumnOrder

\* dragState.draggedId === null
NoId == ""

\* dragState.dropIndex === null
NoIndex == -1

\* The data columns of the table (the columns prop)
DragColumns == SubSeq(ColumnIds, 1, NumDragCols)

\* defaultOrder of DataTable: select, the data columns, actions
DataTableOrder(selectable, actionsColumn) ==
    (IF selectable THEN <<"select">> ELSE <<>>)
    \o DragColumns
    \o (IF actionsColumn THEN <<"actions">> ELSE <<>>)

\* The lockedColumns argument DataTable passes to useColumnDragDrop
LockedList == lockedColumns \cup {"select", "actions"}

ClearedDragState == [isDragging |-> FALSE, draggedId |-> NoId, dropIndex |-> NoIndex]

NoDrop == [draggedId |-> NoId, dropIndex |-> NoIndex, called |-> FALSE,
           from |-> NoIndex, to |-> NoIndex]

Event(type, col) == [type |-> type, col |-> col]

\* A drop index that skips a place on the right half
DropIndexForSkipping(targetIndex, half) ==
    IF half = "left" THEN targetIndex ELSE targetIndex + 2

\* dropIndex = e.clientX < midpoint ? targetIndex : targetIndex + 1
DropIndexFor(targetIndex, half) ==
    IF half = "left" THEN targetIndex ELSE targetIndex + 1

\* handleDrop without the adjustment of the drop index
CorrectedDropIndexUnadjusted(fromIndex, dropIndex) == dropIndex

\* if (fromIndex < toIndex) toIndex = toIndex - 1
CorrectedDropIndex(fromIndex, dropIndex) ==
    IF fromIndex < dropIndex THEN dropIndex - 1 ELSE dropIndex

\* The guard of the moveColumn call without fromIndex !== toIndex
ShouldMoveAnyway(fromIndex, toIndex) ==
    fromIndex # -1 /\ toIndex # -1

\* fromIndex !== -1 && toIndex !== -1 && fromIndex !== toIndex
ShouldMove(fromIndex, toIndex) ==
    fromIndex # -1 /\ toIndex # -1 /\ fromIndex # toIndex

DragIdle ==
    /\ lockedColumns = {}
    /\ dragState = ClearedDragState
    /\ lastEvent = Event("none", NoId)
    /\ lastDrop = NoDrop
    /\ orderBefore = <<>>
    /\ moveCalls = 0

\* A mounted table with nothing stored: the order is the default order and
\* the persist effect has written it
DragInit ==
    /\ ordMounted = TRUE
    /\ defaultOrder \in {DataTableOrder(s, a) : s, a \in BOOLEAN}
    /\ columnOrder = LoadOrder(None, defaultOrder)
    /\ ordStore = StoredList(columnOrder)
    /\ ordDirty = FALSE
    /\ loadedFrom = None
    /\ ordLastOp = "load"
    /\ ordLastCall = NoOrdCall
    /\ lockedColumns \in SUBSET Range(DragColumns)
    /\ dragState = ClearedDragState
    /\ lastEvent = Event("none", NoId)
    /\ lastDrop = NoDrop
    /\ orderBefore = <<>>
    /\ moveCalls = 0

ordFixed == <<ordMounted, defaultOrder, ordStore, loadedFrom, ordLastCall>>

\* onDragStart of the header of columnId
DragStart ==
    \E columnId \in Range(DragColumns) :
        /\ OrdReady
        /\ lastEvent' = Event("dragstart", columnId)
        /\ IF columnId \in LockedList
           THEN UNCHANGED <<dragState, moveCalls>>
           ELSE /\ dragState' = [isDragging |-> TRUE, draggedId |-> columnId,
                                 dropIndex |-> NoIndex]
                /\ moveCalls' = 0
        /\ lastDrop' = NoDrop
        /\ orderBefore' = <<>>
        /\ UNCHANGED <<ordFixed, columnOrder, ordDirty, ordLastOp, lockedColumns, dragOthers>>

\* onDragOver of the header of columnId, the pointer on one half of it
DragOver ==
    \E columnId \in Range(DragColumns), half \in {"left", "right"} :
        /\ OrdReady
        /\ lastEvent' = Event("dragover", columnId)
        /\ LET targetIndex == IndexOf(columnOrder, columnId)
           IN  IF columnId \in LockedList \/ targetIndex = -1
               THEN UNCHANGED dragState
               ELSE dragState' =
                        [dragState EXCEPT !.dropIndex = DropIndexFor(targetIndex, half)]
        /\ lastDrop' = NoDrop
        /\ orderBefore' = <<>>
        /\ UNCHANGED <<ordFixed, columnOrder, ordDirty, ordLastOp, lockedColumns, moveCalls, dragOthers>>

\* onDrop of the header of columnId: handleDrop, and the moveColumn it calls
Drop ==
    \E columnId \in Range(DragColumns) :
        /\ OrdReady
        /\ lastEvent' = Event("drop", columnId)
        /\ orderBefore' = columnOrder
        /\ dragState' = ClearedDragState
        /\ IF dragState.draggedId = NoId \/ dragState.dropIndex = NoIndex
           THEN /\ lastDrop' = [NoDrop EXCEPT !.draggedId = dragState.draggedId,
                                              !.dropIndex = dragState.dropIndex]
                /\ UNCHANGED <<columnOrder, ordDirty, ordLastOp, moveCalls>>
           ELSE LET fromIndex == IndexOf(columnOrder, dragState.draggedId)
                    toIndex == CorrectedDropIndex(fromIndex, dragState.dropIndex)
                    called == ShouldMove(fromIndex, toIndex)
                IN  /\ lastDrop' = [draggedId |-> dragState.draggedId,
                                    dropIndex |-> dragState.dropIndex,
                                    called |-> called,
                                    from |-> fromIndex, to |-> toIndex]
                    /\ columnOrder' = IF called
                                      THEN MoveColumnResult(columnOrder, fromIndex, toIndex)
                                      ELSE columnOrder
                    /\ ordDirty' = (columnOrder' # columnOrder)
                    /\ ordLastOp' = IF called THEN "move" ELSE ordLastOp
                    /\ moveCalls' = IF called THEN Min(moveCalls + 1, MaxCalls)
                                    ELSE moveCalls
        /\ UNCHANGED <<ordFixed, lockedColumns, dragOthers>>

\* onDragEnd
DragEnd ==
    /\ OrdReady
    /\ lastEvent' = Event("dragend", NoId)
    /\ dragState' = ClearedDragState
    /\ lastDrop' = NoDrop
    /\ orderBefore' = <<>>
    /\ UNCHANGED <<ordFixed, columnOrder, ordDirty, ordLastOp, lockedColumns, moveCalls, dragOthers>>

DragNext ==
    \/ DragStart
    \/ DragOver
    \/ Drop
    \/ DragEnd
    \/ OrderPersistEffect

---------------------------------------------------------------------------
\* useResizableColumns

DEFAULT_MIN_WIDTH == 50
DEFAULT_WIDTH == 150
DRAG_THRESHOLD == 3

Abs(x) == IF x < 0 THEN 0 - x ELSE x

\* The columns option.  A field that is 0 is not configured: the hook reads
\* every field through || or a truthiness test.
RsColumns ==
    << [key |-> "a", minWidth |-> 80, maxWidth |-> 300, defaultWidth |-> 0],
       [key |-> "b", minWidth |-> 0,  maxWidth |-> 0,   defaultWidth |-> 100] >>

RsKeys == {RsColumns[i].key : i \in 1..Len(RsColumns)}

NoConfig == [key |-> NoId, minWidth |-> 0, maxWidth |-> 0, defaultWidth |-> 0]

\* getColumnConfig: columnsRef.current.find((c) => c.key === key)
GetColumnConfig(key) ==
    IF key \in RsKeys
    THEN RsColumns[CHOOSE i \in 1..Len(RsColumns) : RsColumns[i].key = key]
    ELSE NoConfig

\* getDefaultWidths
GetDefaultWidths ==
    [k \in RsKeys |->
        IF GetColumnConfig(k).defaultWidth # 0
        THEN GetColumnConfig(k).defaultWidth ELSE DEFAULT_WIDTH]

StoredWidths(m) == [kind |-> "obj", val |-> m]

\* Stored values of the widths key: absent, unparsable, or a map of widths
\* (0: no entry for the column) as an earlier session or an earlier
\* version of the table left it
RsStoreValues ==
    {None, Garbage} \cup
    {StoredWidths(m) :
        m \in {f \in [RsKeys -> {0, 10, 120, 5000}] : f["b"] \in {0, 10}}}

\* { ...defaults, ...parsed }
MergedWidths(defaults, parsed) ==
    [k \in RsKeys |-> IF parsed[k] # 0 THEN parsed[k] ELSE defaults[k]]

\* useState initialiser of the widths
LoadWidths(stored) ==
    IF stored.kind = "obj" THEN MergedWidths(GetDefaultWidths, stored.val)
    ELSE GetDefaultWidths

\* clientX of a pointerdown on a resize handle, and of pointer moves
StartXs == {200, 203}
PointerXs == {0, 198, 200, 203, 206, 260, 1200}

\* The new width of onPointerMove without its lower clamp
NewWidthNoFloor(start, diff, config) ==
    IF config.maxWidth # 0 THEN Min(config.maxWidth, start + diff) ELSE start + diff

\* The new width of onPointerMove
NewWidth(start, diff, config) ==
    LET minWidth == IF config.minWidth # 0 THEN config.minWidth ELSE DEFAULT_MIN_WIDTH
        maxWidth == config.maxWidth
        newWidth == Max(minWidth, start + diff)
    IN  IF maxWidth # 0 THEN Min(maxWidth, newWidth) ELSE newWidth

AllListeners == {"pointermove", "pointerup", "pointercancel"}

\* A threshold test that lets every movement count as a drag
BelowThresholdNever(diff) == FALSE

\* Math.abs(diff) < DRAG_THRESHOLD: the pointer has not left the jitter zone
BelowThreshold(diff) == Abs(diff) < DRAG_THRESHOLD

\* A removal that leaves the handlers registered
RemoveDocumentListenersNoop(registered) == registered

\* The three document.removeEventListener calls of onPointerUp and of the
\* unmount cleanup
RemoveDocumentListeners(registered) == registered \ AllListeners

PlainBody == [cursor |-> "", userSelect |-> ""]
ResizingBody == [cursor |-> "col-resize", userSelect |-> "none"]

\* Inline body styles set by the page the table lives in
PageBody == [cursor |-> "wait", userSelect |-> "text"]

ResizeIdle ==
    /\ rsMounted = FALSE
    /\ widths = [k \in RsKeys |-> 0]
    /\ isResizing = FALSE
    /\ resizingColumn = NoId
    /\ startX = 0
    /\ startWidth = 0
    /\ activeColumn = NoId
    /\ hasDragged = FALSE
    /\ widthsRef = [k \in RsKeys |-> 0]
    /\ listeners = {}
    /\ bodyStyle = PlainBody
    /\ pageBody = PlainBody
    /\ rsStore = None
    /\ rsDirty = FALSE
    /\ rsLastOp = "none"
    /\ rsLastX = 0
    /\ gestures = 0

ResizeInit ==
    /\ rsMounted = FALSE
    /\ widths = [k \in RsKeys |-> 0]
    /\ isResizing = FALSE
    /\ resizingColumn = NoId
    /\ startX = 0
    /\ startWidth = 0
    /\ activeColumn = NoId
    /\ hasDragged = FALSE
    /\ widthsRef = [k \in RsKeys |-> 0]
    /\ listeners = {}
    /\ bodyStyle = PlainBody
    /\ pageBody = PlainBody
    /\ rsStore \in RsStoreValues
    /\ rsDirty = FALSE
    /\ rsLastOp = "none"
    /\ rsLastX = 0
    /\ gestures = 0

\* Mount: the useState initialiser and the refs of a new instance
MountResize ==
    /\ ~rsMounted
    /\ rsMounted' = TRUE
    /\ widths' = LoadWidths(ReadStorage(rsStore))
    /\ raised' = (raised \/ Escapes(ReadThrows(rsStore)))
    /\ widthsRef' = widths'
    /\ isResizing' = FALSE
    /\ resizingColumn' = NoId
    /\ startX' = 0
    /\ startWidth' = 0
    /\ activeColumn' = NoId
    /\ hasDragged' = FALSE
    /\ rsDirty' = TRUE
    /\ rsLastOp' = "mount"
    /\ UNCHANGED <<listeners, bodyStyle, pageBody, rsStore, rsLastX, gestures, rsPeers>>

\* The effects of the committed render: persist the widths, refresh widthsRef
ResizeEffects ==
    /\ rsMounted /\ rsDirty
    /\ rsStore' = WriteStorage(rsStore, StoredWidths(widths))
    /\ raised' = (raised \/ Escapes(storageThrows))
    /\ widthsRef' = widths
    /\ rsDirty' = FALSE
    /\ UNCHANGED <<rsMounted, widths, isResizing, resizingColumn, startX, startWidth,
                   activeColumn, hasDragged, listeners, bodyStyle, pageBody, rsLastOp, rsLastX,
                   gestures, rsPeers>>

RsReady == rsMounted /\ ~rsDirty

\* onPointerDown of the resize handle of columnKey: startResize
PointerDown ==
    \E columnKey \in RsKeys, clientX \in StartXs :
        /\ RsReady
        /\ gestures < MaxGestures
        /\ gestures' = gestures + 1
        /\ startX' = clientX
        /\ startWidth' = IF widthsRef[columnKey] # 0 THEN widthsRef[columnKey]
                         ELSE DEFAULT_WIDTH
        /\ activeColumn' = columnKey
        /\ hasDragged' = FALSE
        /\ listeners' = listeners \cup AllListeners
        /\ rsLastOp' = "down"
        /\ UNCHANGED <<rsMounted, widths, isResizing, resizingColumn, widthsRef,
                       bodyStyle, pageBody, rsStore, rsDirty, rsLastX, rsOthers>>

\* The document's pointermove listener: onPointerMove
PointerMove ==
    \E clientX \in PointerXs :
        /\ ~rsDirty
        /\ "pointermove" \in listeners
        /\ rsLastOp' = "move"
        /\ rsLastX' = clientX
        /\ LET diff == clientX - startX
           IN  IF activeColumn = NoId \/ (~hasDragged /\ BelowThreshold(diff))
               THEN UNCHANGED <<widths, isResizing, resizingColumn, hasDragged,
                                bodyStyle, rsDirty>>
               ELSE /\ hasDragged' = TRUE
                    /\ isResizing' = TRUE
                    /\ resizingColumn' = activeColumn
                    /\ bodyStyle' = IF hasDragged THEN bodyStyle ELSE ResizingBody
                    /\ widths' = [widths EXCEPT ![activeColumn] =
                                     NewWidth(startWidth, diff, GetColumnConfig(activeColumn))]
                    /\ rsDirty' = TRUE
        /\ UNCHANGED <<rsMounted, startX, startWidth, activeColumn, widthsRef,
                       listeners, pageBody, rsStore, gestures, rsOthers>>

\* onPointerUp, the listener of pointerup and of pointercancel
PointerUpHandler(op) ==
    /\ ~rsDirty
    /\ activeColumn' = NoId
    /\ hasDragged' = FALSE
    /\ isResizing' = FALSE
    /\ resizingColumn' = NoId
    /\ listeners' = RemoveDocumentListeners(listeners)
    /\ bodyStyle' = PlainBody
    /\ rsDirty' = isResizing
    /\ rsLastOp' = op
    /\ UNCHANGED <<rsMounted, widths, startX, startWidth, widthsRef, pageBody,
                   rsStore, rsLastX, gestures, rsOthers>>

PointerUp == "pointerup" \in listeners /\ PointerUpHandler("up")

PointerCancel == "pointercancel" \in listeners /\ PointerUpHandler("cancel")

ResetToDefaults ==
    /\ RsReady
    /\ widths' = GetDefaultWidths
    /\ rsDirty' = TRUE
    /\ rsLastOp' = "reset"
    /\ UNCHANGED <<rsMounted, isResizing, resizingColumn, startX, startWidth,
                   activeColumn, hasDragged, widthsRef, listeners, bodyStyle, pageBody, rsStore,
                   rsLastX, gestures, rsOthers>>

\* Unmount: the cleanup of the mount effect
UnmountResize ==
    /\ RsReady
    /\ rsMounted' = FALSE
    /\ listeners' = RemoveDocumentListeners(listeners)
    /\ bodyStyle' = PlainBody
    /\ rsLastOp' = "unmount"
    /\ UNCHANGED <<widths, isResizing, resizingColumn, startX, startWidth,
                   activeColumn, hasDragged, widthsRef, pageBody, rsStore, rsDirty,
                   rsLastX, gestures, rsOthers>>

\* A table on a page that may keep inline cursor and user-select styles on
\* the body; nothing stored or the widths of an earlier session
ResizeGestureInit ==
    /\ rsMounted = FALSE
    /\ widths = [k \in RsKeys |-> 0]
    /\ isResizing = FALSE
    /\ resizingColumn = NoId
    /\ startX = 0
    /\ startWidth = 0
    /\ activeColumn = NoId
    /\ hasDragged = FALSE
    /\ widthsRef = [k \in RsKeys |-> 0]
    /\ listeners = {}
    /\ pageBody \in {PlainBody, PageBody}
    /\ bodyStyle = pageBody
    /\ rsStore \in {None, StoredWidths([k \in RsKeys |-> 120])}
    /\ rsDirty = FALSE
    /\ rsLastOp = "none"
    /\ rsLastX = 0
    /\ gestures = 0

ResizeNext ==
    \/ MountResize
    \/ ResizeEffects
    \/ PointerDown
    \/ PointerMove
    \/ PointerUp
    \/ PointerCancel
    \/ ResetToDefaults
    \/ UnmountResize

---------------------------------------------------------------------------
\* useColumnVisibility

\* The ids of the columns option
VisIds == {"a", "b"}

\* The keys a visibility map can have: the column ids and an unknown id
VisKeys == VisIds \cup {UnknownId}

\* JavaScript values of a map entry: true, false, no entry (undefined), and
\* a stored value that is no boolean, truthy ("yes", 1) or falsy (0, null)
JsValues == {"true", "false", "undef", "truthy", "falsy"}

JsBool(b) == IF b THEN "true" ELSE "false"

\* !v
JsNot(v) == IF v \in {"false", "undef", "falsy"} THEN "true" ELSE "false"

\* The columns options: each column locked or not, visible by default or not
VisConfigs == [VisIds -> [locked : BOOLEAN, defaultVisible : BOOLEAN]]

StoredVisibility(m) == [kind |-> "obj", val |-> m]

\* Stored values of the visibility key: absent, unparsable, or a map
VisStoreValues ==
    {None, Garbage} \cup
    {StoredVisibility(m) :
        m \in {f \in [VisKeys -> JsValues] : f[UnknownId] \in {"undef", "false"}}}

NoVisibility == [k \in VisKeys |-> "undef"]

\* defaults[col.id] = col.defaultVisible !== false
VisDefaults(columns) ==
    [k \in VisKeys |-> IF k \in VisIds THEN JsBool(columns[k].defaultVisible) ELSE "undef"]

\* A merge in which the stored entry wins over the lock
VisMergedStoredFirst(columns, parsed) ==
    [k \in VisKeys |->
        IF k \notin VisIds THEN "undef"
        ELSE IF parsed[k] # "undef" THEN parsed[k]
        ELSE IF columns[k].locked THEN "true"
        ELSE JsBool(columns[k].defaultVisible)]

\* The merge of the stored map with the column configs
VisMerged(columns, parsed) ==
    [k \in VisKeys |->
        IF k \notin VisIds THEN "undef"
        ELSE IF columns[k].locked THEN "true"
        ELSE IF parsed[k] # "undef" THEN parsed[k]
        ELSE JsBool(columns[k].defaultVisible)]

\* useState initialiser of visibleColumns
LoadVisibility(stored, columns) ==
    IF stored.kind = "obj" THEN VisMerged(columns, stored.val) ELSE VisDefaults(columns)

\* isColumnVisible without the locked test
IsColumnVisibleByMapOnly(columnId) == visibleColumns[columnId] # "false"

\* isColumnVisible
IsColumnVisible(columnId) ==
    IF columnId \in VisIds /\ visColumns[columnId].locked THEN TRUE
    ELSE visibleColumns[columnId] # "false"

VisOp(op, col) == [op |-> op, col |-> col]

VisibilityIdle ==
    /\ visMounted = FALSE
    /\ visColumns = [k \in VisIds |-> [locked |-> FALSE, defaultVisible |-> TRUE]]
    /\ visibleColumns = NoVisibility
    /\ visStore = None
    /\ visDirty = FALSE
    /\ visLastOp = VisOp("none", NoId)
    /\ visPrev = NoVisibility

VisibilityInit ==
    /\ visMounted = FALSE
    /\ visColumns \in VisConfigs
    /\ visibleColumns = NoVisibility
    /\ visStore \in VisStoreValues
    /\ visDirty = FALSE
    /\ visLastOp = VisOp("none", NoId)
    /\ visPrev = NoVisibility

\* Mount: the useState initialiser, then the first render is committed
MountVisibility ==
    /\ ~visMounted
    /\ visMounted' = TRUE
    /\ visibleColumns' = LoadVisibility(ReadStorage(visStore), visColumns)
    /\ raised' = (raised \/ Escapes(ReadThrows(visStore)))
    /\ visPrev' = NoVisibility
    /\ visDirty' = TRUE
    /\ visLastOp' = VisOp("load", NoId)
    /\ UNCHANGED <<visColumns, visStore, visPeers>>

\* The persist effect: JSON.stringify(visibleColumns) under the key
VisPersistEffect ==
    /\ visMounted /\ visDirty
    /\ visStore' = WriteStorage(visStore, StoredVisibility(visibleColumns))
    /\ raised' = (raised \/ Escapes(storageThrows))
    /\ visDirty' = FALSE
    /\ UNCHANGED <<visMounted, visColumns, visibleColumns, visLastOp, visPrev, visPeers>>

VisReady == visMounted /\ ~visDirty

ToggleColumn ==
    \E columnId \in VisKeys :
        /\ VisReady
        /\ visLastOp' = VisOp("toggle", columnId)
        /\ visPrev' = visibleColumns
        /\ IF columnId \in VisIds /\ visColumns[columnId].locked
           THEN UNCHANGED <<visibleColumns, visDirty>>
           ELSE /\ visibleColumns' =
                       [visibleColumns EXCEPT ![columnId] = JsNot(visibleColumns[columnId])]
                /\ visDirty' = TRUE
        /\ UNCHANGED <<visMounted, visColumns, visStore, visOthers>>

ShowAllColumns ==
    /\ VisReady
    /\ visLastOp' = VisOp("showAll", NoId)
    /\ visPrev' = visibleColumns
    /\ visibleColumns' = [k \in VisKeys |-> IF k \in VisIds THEN "true" ELSE "undef"]
    /\ visDirty' = TRUE
    /\ UNCHANGED <<visMounted, visColumns, visStore, visOthers>>

HideAllColumns ==
    /\ VisReady
    /\ visLastOp' = VisOp("hideAll", NoId)
    /\ visPrev' = visibleColumns
    /\ visibleColumns' =
           [k \in VisKeys |-> IF k \in VisIds THEN JsBool(visColumns[k].locked) ELSE "undef"]
    /\ visDirty' = TRUE
    /\ UNCHANGED <<visMounted, visColumns, visStore, visOthers>>

UnmountVisibility ==
    /\ VisReady
    /\ visMounted' = FALSE
    /\ visLastOp' = VisOp("unmount", NoId)
    /\ UNCHANGED <<visColumns, visibleColumns, visStore, visDirty, visPrev, visOthers>>

VisibilityNext ==
    \/ MountVisibility
    \/ VisPersistEffect
    \/ ToggleColumn
    \/ ShowAllColumns
    \/ HideAllColumns
    \/ UnmountVisibility

---------------------------------------------------------------------------
\* DataTable: the current page's rows and the row selection helpers

\* The items of the data prop are numbered 1..data.length in data order;
\* getRowId is the caller's extraction function, unique over the data
getRowId(item) == <<"row", item>>

\* startIndex = (page - 1) * pageSize (0-based, before the display offset)
StartIndexOf(p, size) == (p - 1) * size

\* An endIndex that is not capped by data.length
EndIndexOfUncapped(p, size, n) == StartIndexOf(p, size) + size

\* endIndex = Math.min(startIndex + pageSize, data.length)
EndIndexOf(p, size, n) == Min(StartIndexOf(p, size) + size, n)

\* A select-all over the whole data instead of the page
PaginatedDataOfWhole(p, size, n) == [k \in 1..n |-> k]

\* paginatedData = data.slice(startIndex, endIndex): the items of the page
PaginatedDataOf(p, size, n) ==
    LET s == Min(Max(StartIndexOf(p, size), 0), n)
        e == Min(Max(EndIndexOf(p, size, n), 0), n)
    IN  [k \in 1..Max(e - s, 0) |-> s + k]

paginatedData == PaginatedDataOf(page, pageSize, dataLen)

\* The startIndex of the result: startIndex + 1, 1-indexed for display
startIndex == StartIndexOf(page, pageSize) + 1

\* The endIndex of the result
endIndex == EndIndexOf(page, pageSize, dataLen)

\* The selectable prop: the table of the selection model has the select
\* column, and the parent passes selectedIds and onSelectionChange
Selectable == TRUE

\* isAllSelected for a given selectedIds
IsAllSelectedFor(selected) ==
    IF ~Selectable \/ Len(paginatedData) = 0 THEN FALSE
    ELSE \A k \in 1..Len(paginatedData) : getRowId(paginatedData[k]) \in selected

isAllSelected == IsAllSelectedFor(selectedIds)

\* paginatedData.filter((item) => selectedIds.has(getRowId(item))).length
SelectedLength(selected) ==
    Cardinality({k \in 1..Len(paginatedData) : getRowId(paginatedData[k]) \in selected})

\* An isSomeSelected without the upper limit
IsSomeSelectedForAny(selected) ==
    IF ~Selectable THEN FALSE ELSE SelectedLength(selected) > 0

\* isSomeSelected for a given selectedIds
IsSomeSelectedFor(selected) ==
    IF ~Selectable THEN FALSE
    ELSE SelectedLength(selected) > 0 /\ SelectedLength(selected) < Len(paginatedData)

isSomeSelected == IsSomeSelectedFor(selectedIds)

\* What a selection helper saw when it was called
SelOp(op) == [op |-> op, page |-> page, pageSize |-> pageSize, dataLen |-> dataLen]

NoSelOp == [op |-> "none", page |-> 0, pageSize |-> 0, dataLen |-> 0]

SelectionIdle ==
    /\ selectedIds = {}
    /\ selLastOp = NoSelOp

\* A table with a selectable column, nothing selected, data of up to
\* MaxSelRows rows, not yet mounted
SelectionInit ==
    /\ PaginationInit
    /\ dataLen <= MaxSelRows
    /\ pgStore = None
    /\ SelectionIdle

\* selectAll: onSelectionChange(new Set(paginatedData.map(getRowId))); the
\* parent stores the set it receives and passes it back as selectedIds
SelectAll ==
    /\ PgReady
    /\ selectedIds' = {getRowId(paginatedData[k]) : k \in 1..Len(paginatedData)}
    /\ selLastOp' = SelOp("selectAll")
    /\ UNCHANGED selOthers

\* clearSelection: onSelectionChange(new Set())
ClearSelection ==
    /\ PgReady
    /\ selectedIds' = {}
    /\ selLastOp' = [NoSelOp EXCEPT !.op = "clear"]
    /\ UNCHANGED selOthers

\* toggleSelection(itemId), from the checkbox of a row of the current page
ToggleSelection ==
    \E k \in 1..Len(paginatedData) :
        LET itemId == getRowId(paginatedData[k])
        IN  /\ PgReady
            /\ selectedIds' = IF itemId \in selectedIds
                              THEN selectedIds \ {itemId}
                              ELSE selectedIds \cup {itemId}
            /\ selLastOp' = [NoSelOp EXCEPT !.op = "toggle"]
            /\ UNCHANGED selOthers

SelectionNext ==
    \/ MountPagination
    \/ PaginationEffects
    \/ SetPage
    \/ NextPage
    \/ PrevPage
    \/ FirstPage
    \/ LastPage
    \/ SelectAll
    \/ ClearSelection
    \/ ToggleSelection

---------------------------------------------------------------------------
\* LogViewer: the entry pipeline

\* Messages of log entries: a plain line and two stack-trace frames
\* (a frame is a message matching /^\s*at\s/)
Messages == {"Error X", "  at f", "  at g"}

IsFrame(msg) == msg \in {"  at f", "  at g"}

\* An entry: its timestamp, its message and metadata.stack as the list of the
\* lines that a newline joins (no stack: the empty list)
Entry(ts, msg) == [ts |-> ts, msg |-> msg, stack |-> <<>>]

\* The entries the fetches and the subscription deliver: plain lines of every
\* timestamp and the two frames
LogEntries ==
    {Entry(t, "Error X") : t \in 1..MaxTs}
        \cup {Entry(1, "  at f"), Entry(MaxTs, "  at g")}

Batches == SeqsUpTo(LogEntries, MaxBatch)

\* normalizeLog: fills in the fields an entry lacks; the fields of the model
\* (timestamp, message, metadata) are kept as they are
normalizeLog(log) == [ts |-> log.ts, msg |-> log.msg, stack |-> log.stack]

\* enforceMax returning the entries as they are
enforceMaxKeepingAll(entries, max) == entries

\* enforceMax: entries.slice(-maxEntries) when the cap is set and exceeded
enforceMax(entries, max) ==
    IF max = 0 \/ Len(entries) <= max THEN entries
    ELSE SubSeq(entries, Len(entries) - max + 1, Len(entries))

\* The frame's line joined to the stack of the entry
WithFrame(entry, msg) == [entry EXCEPT !.stack = @ \o <<msg>>]

RECURSIVE CoalesceInto(_, _)
\* The loop of coalesceStackTraces over the entries left, with the output so far
CoalesceInto(entries, out) ==
    IF entries = <<>> THEN out
    ELSE LET normalized == normalizeLog(Head(entries))
         IN  IF IsFrame(normalized.msg) /\ Len(out) > 0
             THEN CoalesceInto(Tail(entries),
                               [out EXCEPT ![Len(out)] = WithFrame(@, normalized.msg)])
             ELSE CoalesceInto(Tail(entries), Append(out, normalized))

\* coalesceStackTraces keeping every frame as an entry of its own
coalesceStackTracesKeepingFrames(entries) ==
    [i \in 1..Len(entries) |-> normalizeLog(entries[i])]

coalesceStackTraces(entries) == CoalesceInto(entries, <<>>)

\* The sort comparator puts a before b or leaves them in place
\* (diff = a.ts - b.ts; newestFirst ? -diff : diff is not positive)
NotAfter(a, b, nf) == IF nf THEN a.ts >= b.ts ELSE a.ts <= b.ts

RECURSIVE SortInto(_, _, _)
\* Array.prototype.sort, which is stable: each entry goes behind the entries
\* the comparator does not put after it
SortInto(entries, out, nf) ==
    IF entries = <<>> THEN out
    ELSE LET e == Head(entries)
             k == Cardinality({i \in 1..Len(out) : NotAfter(out[i], e, nf)})
         IN  SortInto(Tail(entries),
                      SubSeq(out, 1, k) \o <<e>> \o SubSeq(out, k + 1, Len(out)),
                      nf)

sortByTimestamp(entries, nf) == SortInto(entries, <<>>, nf)

\* The category fetch, the polling tick and the external logs effect:
\* setLogs(enforceMax(coalesceStackTraces(fetched).sort(...)))
FetchedLogs(fetched, nf, max) ==
    enforceMax(sortByTimestamp(coalesceStackTraces(fetched), nf), max)

\* The Refresh button: setLogs(enforceMax(coalesceStackTraces(l)))
RefreshedLogs(fetched, max) == enforceMax(coalesceStackTraces(fetched), max)

\* handleLog: the updater the subscription handler passes to setLogs
handleLog(prev, raw, max) ==
    LET log == normalizeLog(raw)
    IN  IF IsFrame(log.msg) /\ Len(prev) > 0
        THEN enforceMax(SubSeq(prev, 1, Len(prev) - 1)
                            \o <<WithFrame(prev[Len(prev)], log.msg)>>, max)
        ELSE enforceMax(Append(prev, log), max)

---------------------------------------------------------------------------
\* LogViewer: the component, its effects and its fetches

\* The ids of defaultCategories
Categories == {"current", "archives"}

\* The effects of a render that depend on props or state the model changes:
\* the external logs effect, the auto-refresh polling effect and the
\* category fetch effect
AllEffects == {"external", "polling", "category"}

TimerIds == 1..MaxTimers

\* Archive lists a fetch of the archives resolves with
ArchiveLists == {<<"a.log">>, <<"a.log", "b.log">>}

\* Log batches of the runs that follow the fetches rather than the pipeline
ProbeBatches == {<<Entry(MaxTs, "Error X")>>, <<Entry(1, "Error X"), Entry(MaxTs, "Error X")>>}

\* Log batches of the cap model: none, and one of MaxCap + 3 lines, the second
\* of them a frame, so that it holds more entries than any cap of the model
CapBatches ==
    {<<>>,
     [i \in 1..(MaxCap + 3) |->
         IF i = 2 THEN Entry(MaxTs, "  at g")
         ELSE IF i = 1 THEN Entry(MaxTs, "Error X")
         ELSE Entry(1, "Error X")]}

\* How a promise settles: it rejects, resolves with nothing (null or
\* undefined) or resolves with a value
Rejected == [kind |-> "reject", value |-> <<>>]

Nothing == [kind |-> "nothing", value |-> <<>>]

Resolved(v) == [kind |-> "value", value |-> v]

NoOutcome == [kind |-> "none", value |-> <<>>]

\* The least id that no member of the set has
FreeId(ids) == CHOOSE n \in 1..(Cardinality(ids) + 1) : n \notin ids

\* A pending call of onFetchLogs or onFetchArchives: the path that made it
\* ("category", "poll" or "refresh"), what it fetches, the category the view
\* showed when it started and the cancelled flag of the effect run that made it
Fetch(path, kind) ==
    [id |-> FreeId({f.id : f \in inflight}), path |-> path, kind |-> kind,
     category |-> activeCategory, cancelled |-> FALSE]

NoFetch ==
    [id |-> 0, path |-> "none", kind |-> "none", category |-> "none", cancelled |-> FALSE]

LvOp(op, f, outcome) ==
    [op |-> op, fetch |-> f, outcome |-> outcome, category |-> activeCategory]

\* The polling effect sets an interval: autoRefreshOn, autoRefreshMs > 0 and onFetchLogs
PollingWanted == autoRefreshOn /\ autoRefreshMs > 0 /\ onFetchLogs

\* A cleanup that leaves the interval running
clearIntervalNoop(ts, id) == ts

\* clearInterval(autoRefreshRef.current)
clearInterval(ts, id) == ts \ {id}

\* The category effect fetching the archives without looking at the latch
ShouldFetchArchivesAgain(category, given, latch) == category = "archives" /\ given

\* The category effect fetches the archives
ShouldFetchArchives(category, given, latch) ==
    category = "archives" /\ given /\ ~latch

\* The category effect fetches the logs
ShouldFetchLogs(category, given) == category = "current" /\ given

\* The cleanup of the category effect: cancelled = true in the closure of the
\* run that started the fetch
Cancelled(fs) == {[f EXCEPT !.cancelled = (@ \/ f.path = "category")] : f \in fs}

\* A settled fetch changes state: it resolved with a value, the component is
\* mounted and (the category effect only) its run was not cancelled
Applies(f, outcome, mounted) ==
    outcome.kind = "value" /\ mounted /\ ~f.cancelled

\* The entry list after a rejection wiped it
SettledLogsWiping(f, outcome, mounted, prev, nf, max) ==
    IF outcome.kind = "reject" THEN <<>>
    ELSE IF f.kind = "logs" /\ Applies(f, outcome, mounted)
    THEN IF f.path = "refresh"
         THEN RefreshedLogs(outcome.value, max)
         ELSE FetchedLogs(outcome.value, nf, max)
    ELSE prev

\* The entry list after a fetch settled
SettledLogs(f, outcome, mounted, prev, nf, max) ==
    IF f.kind = "logs" /\ Applies(f, outcome, mounted)
    THEN IF f.path = "refresh"
         THEN RefreshedLogs(outcome.value, max)
         ELSE FetchedLogs(outcome.value, nf, max)
    ELSE prev

\* The archive list after a fetch settled
SettledLogFiles(f, outcome, mounted, prev) ==
    IF f.kind = "archives" /\ Applies(f, outcome, mounted) THEN outcome.value ELSE prev

\* archivesFetchedRef.current after a fetch settled
SettledLatch(f, outcome, mounted, prev) ==
    IF f.kind = "archives" /\ Applies(f, outcome, mounted) THEN TRUE ELSE prev

\* loading after a fetch settled: finally { if (!cancelled) setLoading(false) }
SettledLoading(f, prev) ==
    IF f.path = "category" /\ ~f.cancelled THEN FALSE ELSE prev

LogViewerIdle ==
    /\ lvMounted = FALSE
    /\ onFetchLogs = FALSE
    /\ onFetchArchives = FALSE
    /\ autoRefreshMs = 0
    /\ maxEntries = 0
    /\ newestFirst = TRUE
    /\ liveUpdates = FALSE
    /\ externalLogs = <<>>
    /\ logs = <<>>
    /\ logFiles = <<>>
    /\ loading = FALSE
    /\ activeCategory = "current"
    /\ autoRefreshOn = FALSE
    /\ autoRefreshRef = 0
    /\ archivesFetchedRef = FALSE
    /\ timers = {}
    /\ inflight = {}
    /\ lvDirty = {}
    /\ lvLastOp = [op |-> "none", fetch |-> NoFetch, outcome |-> NoOutcome,
                   category |-> "current"]
    /\ pushed = <<>>
    /\ lvCount = [steps |-> 0, limit |-> 0]

\* The component after its first render was committed, for the props and the
\* default category chosen: the useState initialisers and the refs
LogViewerConstructed(limit) ==
    /\ lvMounted = TRUE
    /\ logs = externalLogs
    /\ logFiles = <<>>
    /\ loading = FALSE
    /\ autoRefreshOn = (autoRefreshMs > 0)
    /\ autoRefreshRef = 0
    /\ archivesFetchedRef = FALSE
    /\ timers = {}
    /\ inflight = {}
    /\ lvDirty = AllEffects
    /\ lvLastOp = [op |-> "mount", fetch |-> NoFetch, outcome |-> NoOutcome,
                   category |-> activeCategory]
    /\ pushed = <<>>
    /\ lvCount = [steps |-> 0, limit |-> limit]

\* The fetch model: any callbacks and polling setting, either category first,
\* no cap and no live updates
LogFetchInit ==
    /\ onFetchLogs \in BOOLEAN
    /\ onFetchArchives \in BOOLEAN
    /\ autoRefreshMs \in {0, 1000}
    /\ maxEntries = 0
    /\ newestFirst = TRUE
    /\ liveUpdates = FALSE
    /\ externalLogs = <<>>
    /\ activeCategory \in Categories
    /\ LogViewerConstructed(MaxSteps)

\* The pipeline model, with any cap and sort direction: a viewer given
\* external logs only, a viewer that fetches its logs on mount, a viewer given
\* a few external lines and live updates, and a viewer that opens on the
\* archives and polls the logs
LogPipelineInit ==
    /\ onFetchArchives = FALSE
    /\ maxEntries \in 0..MaxCap
    /\ newestFirst \in BOOLEAN
    /\ \/ /\ onFetchLogs = FALSE
          /\ autoRefreshMs = 0
          /\ liveUpdates = FALSE
          /\ externalLogs \in Batches
          /\ activeCategory = "current"
          /\ LogViewerConstructed(0)
       \/ /\ onFetchLogs = TRUE
          /\ autoRefreshMs = 0
          /\ liveUpdates = FALSE
          /\ externalLogs = <<>>
          /\ activeCategory = "current"
          /\ LogViewerConstructed(0)
       \/ /\ onFetchLogs = FALSE
          /\ autoRefreshMs = 0
          /\ liveUpdates = TRUE
          /\ externalLogs \in SeqsUpTo({Entry(t, "Error X") : t \in 1..MaxTs}, MaxExternal)
          /\ activeCategory = "current"
          /\ LogViewerConstructed(0)
       \/ /\ onFetchLogs = TRUE
          /\ autoRefreshMs = 1000
          /\ liveUpdates = FALSE
          /\ externalLogs = <<>>
          /\ activeCategory = "archives"
          /\ LogViewerConstructed(1)

\* The pending effects of the committed render, in the order of the source:
\* the external logs effect, the polling effect (its cleanup, then its body)
\* and the category effect (its cleanup, then run())
LogViewerEffects ==
    /\ lvMounted /\ lvDirty # {}
    /\ LET polling  == "polling" \in lvDirty
           category == "category" \in lvDirty
           cleared  == IF polling THEN clearInterval(timers, autoRefreshRef) ELSE timers
           startLogs == category /\ ShouldFetchLogs(activeCategory, onFetchLogs)
           startArchives ==
               /\ category
               /\ ~ShouldFetchLogs(activeCategory, onFetchLogs)
               /\ ShouldFetchArchives(activeCategory, onFetchArchives, archivesFetchedRef)
           started == IF startLogs THEN Fetch("category", "logs")
                      ELSE IF startArchives THEN Fetch("category", "archives")
                      ELSE NoFetch
       IN  /\ logs' = IF "external" \in lvDirty /\ Len(externalLogs) > 0
                      THEN FetchedLogs(externalLogs, newestFirst, maxEntries)
                      ELSE logs
           /\ IF polling /\ PollingWanted
              THEN \E id \in TimerIds \ cleared :
                      /\ id = FreeId(cleared)
                      /\ timers' = cleared \cup {id}
                      /\ autoRefreshRef' = id
              ELSE /\ timers' = cleared
                   /\ autoRefreshRef' = IF polling THEN 0 ELSE autoRefreshRef
           /\ inflight' = (IF category THEN Cancelled(inflight) ELSE inflight)
                              \cup (IF started = NoFetch THEN {} ELSE {started})
           /\ loading' = IF started = NoFetch THEN loading ELSE TRUE
           /\ lvLastOp' = LvOp("effects", started, NoOutcome)
    /\ lvDirty' = {}
    /\ UNCHANGED <<lvMounted, onFetchLogs, onFetchArchives, autoRefreshMs, maxEntries,
                   newestFirst, liveUpdates, externalLogs, logFiles, activeCategory,
                   autoRefreshOn, archivesFetchedRef, pushed, lvCount, lvOthers>>

\* Event handlers run on a committed render whose effects have run
LvReady == lvMounted /\ lvDirty = {}

\* One more step of the user, the parent or a timer is within the run's limit
LvStep == lvCount.steps < lvCount.limit

\* An interval fires: onFetchLogs() is called
TimerTick ==
    /\ lvDirty = {}
    /\ timers # {}
    /\ LvStep
    /\ inflight' = inflight \cup {Fetch("poll", "logs")}
    /\ lvCount' = [lvCount EXCEPT !.steps = @ + 1]
    /\ lvLastOp' = LvOp("tick", Fetch("poll", "logs"), NoOutcome)
    /\ UNCHANGED <<lvMounted, onFetchLogs, onFetchArchives, autoRefreshMs, maxEntries,
                   newestFirst, liveUpdates, externalLogs, logs, logFiles, loading,
                   activeCategory, autoRefreshOn, autoRefreshRef, archivesFetchedRef,
                   timers, lvDirty, pushed, lvOthers>>

\* The Refresh button, shown with the current category: onFetchLogs() is called
ClickRefresh ==
    /\ LvReady
    /\ onFetchLogs /\ activeCategory = "current"
    /\ LvStep
    /\ inflight' = inflight \cup {Fetch("refresh", "logs")}
    /\ lvCount' = [lvCount EXCEPT !.steps = @ + 1]
    /\ lvLastOp' = LvOp("refresh", Fetch("refresh", "logs"), NoOutcome)
    /\ UNCHANGED <<lvMounted, onFetchLogs, onFetchArchives, autoRefreshMs, maxEntries,
                   newestFirst, liveUpdates, externalLogs, logs, logFiles, loading,
                   activeCategory, autoRefreshOn, autoRefreshRef, archivesFetchedRef,
                   timers, lvDirty, pushed, lvOthers>>

\* A category button of the sidebar: setActiveCategory(category.id)
SwitchCategory ==
    \E c \in Categories :
        /\ LvReady
        /\ c # activeCategory
        /\ LvStep
        /\ activeCategory' = c
        /\ lvDirty' = {"category"}
        /\ lvCount' = [lvCount EXCEPT !.steps = @ + 1]
        /\ lvLastOp' = LvOp("switch", NoFetch, NoOutcome)
        /\ UNCHANGED <<lvMounted, onFetchLogs, onFetchArchives, autoRefreshMs, maxEntries,
                       newestFirst, liveUpdates, externalLogs, logs, logFiles, loading,
                       autoRefreshOn, autoRefreshRef, archivesFetchedRef, timers,
                       inflight, pushed, lvOthers>>

\* The auto-refresh switch, shown with the current category when autoRefreshMs > 0
ToggleAutoRefresh ==
    /\ LvReady
    /\ autoRefreshMs > 0 /\ activeCategory = "current"
    /\ LvStep
    /\ autoRefreshOn' = ~autoRefreshOn
    /\ lvDirty' = {"polling"}
    /\ lvCount' = [lvCount EXCEPT !.steps = @ + 1]
    /\ lvLastOp' = LvOp("toggleAutoRefresh", NoFetch, NoOutcome)
    /\ UNCHANGED <<lvMounted, onFetchLogs, onFetchArchives, autoRefreshMs, maxEntries,
                   newestFirst, liveUpdates, externalLogs, logs, logFiles, loading,
                   activeCategory, autoRefreshRef, archivesFetchedRef, timers,
                   inflight, pushed, lvOthers>>

\* The parent renders the viewer with another autoRefreshMs
ChangeAutoRefreshMs ==
    \E ms \in {0, 1000} :
        /\ LvReady
        /\ ms # autoRefreshMs
        /\ LvStep
        /\ autoRefreshMs' = ms
        /\ lvDirty' = {"polling"}
        /\ lvCount' = [lvCount EXCEPT !.steps = @ + 1]
        /\ lvLastOp' = LvOp("autoRefreshMs", NoFetch, NoOutcome)
        /\ UNCHANGED <<lvMounted, onFetchLogs, onFetchArchives, maxEntries, newestFirst,
                       liveUpdates, externalLogs, logs, logFiles, loading, activeCategory,
                       autoRefreshOn, autoRefreshRef, archivesFetchedRef, timers,
                       inflight, pushed, lvOthers>>

\* The parent renders the viewer with onFetchLogs given or removed
ChangeOnFetchLogs ==
    /\ LvReady
    /\ LvStep
    /\ onFetchLogs' = ~onFetchLogs
    /\ lvDirty' = {"polling", "category"}
    /\ lvCount' = [lvCount EXCEPT !.steps = @ + 1]
    /\ lvLastOp' = LvOp("onFetchLogs", NoFetch, NoOutcome)
    /\ UNCHANGED <<lvMounted, onFetchArchives, autoRefreshMs, maxEntries, newestFirst,
                   liveUpdates, externalLogs, logs, logFiles, loading, activeCategory,
                   autoRefreshOn, autoRefreshRef, archivesFetchedRef, timers,
                   inflight, pushed, lvOthers>>

\* A pending fetch settles with one of the outcomes; a resolved value comes
\* from the batches given (logs) or from ArchiveLists (archives)
Settle(batches) ==
    \E f \in inflight :
        \E outcome \in {Rejected, Nothing}
                \cup {Resolved(v) : v \in IF f.kind = "logs" THEN batches ELSE ArchiveLists} :
            /\ lvDirty = {}
            /\ logs' = SettledLogs(f, outcome, lvMounted, logs, newestFirst, maxEntries)
            /\ logFiles' = SettledLogFiles(f, outcome, lvMounted, logFiles)
            /\ archivesFetchedRef' = SettledLatch(f, outcome, lvMounted, archivesFetchedRef)
            /\ loading' = SettledLoading(f, loading)
            /\ inflight' = inflight \ {f}
            /\ lvLastOp' = LvOp("settle", f, outcome)
            /\ UNCHANGED <<lvMounted, onFetchLogs, onFetchArchives, autoRefreshMs,
                           maxEntries, newestFirst, liveUpdates, externalLogs,
                           activeCategory, autoRefreshOn, autoRefreshRef, timers,
                           lvDirty, pushed, lvCount, lvOthers>>

SettleFetch == Settle(ProbeBatches)

\* fetchLogs of LogsPage: a rejected API request is caught and answered with
\* [], a response without entries and logs gives [] as well
LogsPageFetchLogs(api) ==
    IF api.kind = "value" THEN api ELSE Resolved(<<>>)

\* fetchArchives of LogsPage
LogsPageFetchArchives(api) ==
    IF api.kind = "value" THEN api ELSE Resolved(<<>>)

\* LogViewer as LogsPage renders it: both fetch callbacks, no polling
\* interval, no logs prop and no subscription; the default cap of 1000
\* entries is never reached by the batches of the model
LogsPageInit ==
    /\ onFetchLogs = TRUE
    /\ onFetchArchives = TRUE
    /\ autoRefreshMs = 0
    /\ maxEntries = 0
    /\ newestFirst = TRUE
    /\ liveUpdates = FALSE
    /\ externalLogs = <<>>
    /\ activeCategory = "current"
    /\ LogViewerConstructed(MaxSteps + 1)

\* The API request behind a pending call of fetchLogs or fetchArchives
\* settles; LogViewer gets what the callback of LogsPage makes of it
SettleLogsPage ==
    \E f \in inflight :
        \E api \in {Rejected, Nothing}
                \cup {Resolved(v) : v \in IF f.kind = "logs" THEN ProbeBatches
                                                             ELSE ArchiveLists} :
            LET outcome == IF f.kind = "logs" THEN LogsPageFetchLogs(api)
                           ELSE LogsPageFetchArchives(api)
            IN  /\ lvDirty = {}
                /\ logs' = SettledLogs(f, outcome, lvMounted, logs, newestFirst, maxEntries)
                /\ logFiles' = SettledLogFiles(f, outcome, lvMounted, logFiles)
                /\ archivesFetchedRef' =
                       SettledLatch(f, outcome, lvMounted, archivesFetchedRef)
                /\ loading' = SettledLoading(f, loading)
                /\ inflight' = inflight \ {f}
                /\ lvLastOp' = LvOp("settle", f, api)
                /\ UNCHANGED <<lvMounted, onFetchLogs, onFetchArchives, autoRefreshMs,
                               maxEntries, newestFirst, liveUpdates, externalLogs,
                               activeCategory, autoRefreshOn, autoRefreshRef, timers,
                               lvDirty, pushed, lvCount, lvOthers>>

SettleBatch == Settle(Batches)

SettleCapBatch == Settle(CapBatches)

\* The subscription delivers an entry: handleLog(raw)
LivePush ==
    \E raw \in LogEntries :
        /\ LvReady
        /\ liveUpdates
        /\ Len(pushed) < MaxPushes
        /\ logs' = handleLog(logs, raw, maxEntries)
        /\ pushed' = Append(pushed, raw)
        /\ lvLastOp' = LvOp("push", NoFetch, Resolved(<<raw>>))
        /\ UNCHANGED <<lvMounted, onFetchLogs, onFetchArchives, autoRefreshMs,
                       maxEntries, newestFirst, liveUpdates, externalLogs, logFiles,
                       loading, activeCategory, autoRefreshOn, autoRefreshRef,
                       archivesFetchedRef, timers, inflight, lvDirty, lvCount, lvOthers>>

\* The cap model: a viewer with a cap, given logs by its parent, fetching
\* and polling the logs, with the Refresh button and live updates
LogCapInit ==
    /\ onFetchLogs = TRUE
    /\ onFetchArchives = FALSE
    /\ autoRefreshMs = 1000
    /\ maxEntries \in 1..MaxCap
    /\ newestFirst \in BOOLEAN
    /\ liveUpdates = TRUE
    /\ externalLogs \in CapBatches
    /\ activeCategory = "current"
    /\ LogViewerConstructed(MaxSteps)

\* The parent renders the viewer with another logs prop
ChangeExternalLogs ==
    \E batch \in CapBatches :
        /\ LvReady
        /\ LvStep
        /\ batch # externalLogs
        /\ externalLogs' = batch
        /\ lvDirty' = {"external"}
        /\ lvCount' = [lvCount EXCEPT !.steps = @ + 1]
        /\ lvLastOp' = LvOp("logs", NoFetch, NoOutcome)
        /\ UNCHANGED <<lvMounted, onFetchLogs, onFetchArchives, autoRefreshMs, maxEntries,
                       newestFirst, liveUpdates, logs, logFiles, loading, activeCategory,
                       autoRefreshOn, autoRefreshRef, archivesFetchedRef, timers,
                       inflight, pushed, lvOthers>>

\* Entries the subscription of the cap model delivers: a header and a frame
CapEntries == {Entry(MaxTs, "Error X"), Entry(1, "  at g")}

\* The subscription of the cap model delivers an entry: handleLog(raw),
\* counted as a step of the run
LivePushCap ==
    \E raw \in CapEntries :
        /\ LvReady
        /\ liveUpdates
        /\ LvStep
        /\ logs' = handleLog(logs, raw, maxEntries)
        /\ pushed' = Append(pushed, raw)
        /\ lvCount' = [lvCount EXCEPT !.steps = @ + 1]
        /\ lvLastOp' = LvOp("push", NoFetch, Resolved(<<raw>>))
        /\ UNCHANGED <<lvMounted, onFetchLogs, onFetchArchives, autoRefreshMs,
                       maxEntries, newestFirst, liveUpdates, externalLogs, logFiles,
                       loading, activeCategory, autoRefreshOn, autoRefreshRef,
                       archivesFetchedRef, timers, inflight, lvDirty, lvOthers>>

\* Unmount: the cleanups of the polling effect and of the category effect
UnmountLogViewer ==
    /\ LvReady
    /\ lvMounted' = FALSE
    /\ timers' = clearInterval(timers, autoRefreshRef)
    /\ autoRefreshRef' = 0
    /\ inflight' = Cancelled(inflight)
    /\ lvLastOp' = LvOp("unmount", NoFetch, NoOutcome)
    /\ UNCHANGED <<onFetchLogs, onFetchArchives, autoRefreshMs, maxEntries, newestFirst,
                   liveUpdates, externalLogs, logs, logFiles, loading, activeCategory,
                   autoRefreshOn, archivesFetchedRef, lvDirty, pushed, lvCount, lvOthers>>

LogFetchNext ==
    \/ LogViewerEffects
    \/ TimerTick
    \/ ClickRefresh
    \/ SwitchCategory
    \/ ToggleAutoRefresh
    \/ ChangeAutoRefreshMs
    \/ ChangeOnFetchLogs
    \/ SettleFetch
    \/ UnmountLogViewer

\* LogViewer inside LogsPage
LogsPageNext ==
    \/ LogViewerEffects
    \/ ClickRefresh
    \/ SwitchCategory
    \/ SettleLogsPage
    \/ UnmountLogViewer

\* Every path that updates the entry list
LogCapNext ==
    \/ LogViewerEffects
    \/ ChangeExternalLogs
    \/ TimerTick
    \/ ClickRefresh
    \/ SettleCapBatch
    \/ LivePushCap

LogPipelineNext ==
    \/ LogViewerEffects
    \/ TimerTick
    \/ SettleBatch
    \/ LivePush

---------------------------------------------------------------------------
\* Specifications

\* usePagination
InitPagination == PaginationInit /\ OrderIdle /\ DragIdle /\ ResizeIdle /\ VisibilityIdle /\ SelectionIdle /\ LogViewerIdle /\ StorageIdle

SpecPagination == InitPagination /\ [][PaginationNext]_vars

\* usePagination with nothing stored, under a user who pages forward and
\* changes the page size and a parent that changes the data; React runs the
\* effects of every render it has committed
InitPaginationLive == InitPagination /\ pgStore = None

PaginationLiveNext ==
    \/ MountPagination
    \/ PaginationEffects
    \/ NextPage
    \/ LastPage
    \/ SetPageSize
    \/ ChangeData

SpecPaginationLive ==
    InitPaginationLive /\ [][PaginationLiveNext]_vars /\ WF_vars(PaginationEffects)

\* useColumnOrder: load, persist, reset, remount
InitOrderLoad == OrderInit /\ PaginationIdle /\ DragIdle /\ ResizeIdle /\ VisibilityIdle /\ SelectionIdle /\ LogViewerIdle /\ StorageIdle

SpecOrderLoad == InitOrderLoad /\ [][OrderLoadNext]_vars

\* useColumnOrder under moveColumn and moveColumnById
InitOrderMove == OrderMoveInit /\ PaginationIdle /\ DragIdle /\ ResizeIdle /\ VisibilityIdle /\ SelectionIdle /\ LogViewerIdle /\ StorageIdle

SpecOrderMove == InitOrderMove /\ [][OrderMoveNext]_vars

\* useColumnDragDrop on a DataTable
InitDrag == DragInit /\ PaginationIdle /\ ResizeIdle /\ VisibilityIdle /\ SelectionIdle /\ LogViewerIdle /\ StorageIdle

SpecDrag == InitDrag /\ [][DragNext]_vars

\* useResizableColumns
InitResize == ResizeInit /\ PaginationIdle /\ OrderIdle /\ DragIdle /\ VisibilityIdle /\ SelectionIdle /\ LogViewerIdle /\ StorageIdle

SpecResize == InitResize /\ [][ResizeNext]_vars

\* useResizableColumns: the gesture on a page with body styles of its own
InitResizeGesture == ResizeGestureInit /\ PaginationIdle /\ OrderIdle /\ DragIdle /\ VisibilityIdle /\ SelectionIdle /\ LogViewerIdle /\ StorageIdle

SpecResizeGesture == InitResizeGesture /\ [][ResizeNext]_vars

\* useColumnVisibility
InitVisibility == VisibilityInit /\ PaginationIdle /\ OrderIdle /\ DragIdle /\ ResizeIdle /\ SelectionIdle /\ LogViewerIdle /\ StorageIdle

SpecVisibility == InitVisibility /\ [][VisibilityNext]_vars

\* DataTable row selection over usePagination
InitSelection == SelectionInit /\ OrderIdle /\ DragIdle /\ ResizeIdle /\ VisibilityIdle /\ LogViewerIdle /\ StorageIdle

SpecSelection == InitSelection /\ [][SelectionNext]_vars

\* LogViewer: fetches, polling and categories
InitLogFetch == LogFetchInit /\ PaginationIdle /\ OrderIdle /\ DragIdle /\ ResizeIdle /\ VisibilityIdle /\ SelectionIdle /\ StorageIdle

SpecLogFetch == InitLogFetch /\ [][LogFetchNext]_vars

\* LogViewer: the entry pipeline
InitLogPipeline == LogPipelineInit /\ PaginationIdle /\ OrderIdle /\ DragIdle /\ ResizeIdle /\ VisibilityIdle /\ SelectionIdle /\ StorageIdle

SpecLogPipeline == InitLogPipeline /\ [][LogPipelineNext]_vars

\* LogViewer with a cap on the entry list
InitLogCap == LogCapInit /\ PaginationIdle /\ OrderIdle /\ DragIdle /\ ResizeIdle /\ VisibilityIdle /\ SelectionIdle /\ StorageIdle

SpecLogCap == InitLogCap /\ [][LogCapNext]_vars

\* LogViewer hosted by LogsPage
InitLogsPage == LogsPageInit /\ PaginationIdle /\ OrderIdle /\ DragIdle /\ ResizeIdle /\ VisibilityIdle /\ SelectionIdle /\ StorageIdle

SpecLogsPage == InitLogsPage /\ [][LogsPageNext]_vars

\* The four controllers when the storage fails
Controllers == {"pagination", "order", "widths", "visibility"}

\* One controller is mounted on a storage that holds nothing, an unparsable
\* string or a value of an earlier session, and that may throw on access
StorageFailureInit ==
    /\ underTest \in Controllers
    /\ storageThrows \in BOOLEAN
    /\ raised = FALSE
    /\ IF underTest = "pagination"
       THEN PaginationInit /\ dataLen = MaxItems
               /\ pgStore \in {None, Garbage, PersistedState(1, MaxPageSize)}
       ELSE PaginationIdle
    /\ IF underTest = "order"
       THEN OrderMoveInit /\ Len(defaultOrder) = 3
       ELSE OrderIdle
    /\ IF underTest = "widths"
       THEN ResizeInit /\ rsStore \in {None, Garbage, StoredWidths([k \in RsKeys |-> 120])}
       ELSE ResizeIdle
    /\ IF underTest = "visibility"
       THEN VisibilityInit
               /\ visStore \in {None, Garbage, StoredVisibility([k \in VisKeys |-> "false"])}
       ELSE VisibilityIdle
    /\ DragIdle
    /\ SelectionIdle
    /\ LogViewerIdle
    /\ KeysIdle

\* The storage starts or stops throwing (quota, privacy mode, a disabled
\* storage)
StorageTurns ==
    /\ storageThrows' = ~storageThrows
    /\ UNCHANGED <<pgVars, ordVars, dragVars, rsVars, visVars, selVars, lvVars, underTest,
                   tableKeys, sharedStorage, raised>>

PaginationUnderTest ==
    /\ underTest = "pagination"
    /\ \/ MountPagination
       \/ PaginationEffects
       \/ SetPageSize
       \/ NextPage
       \/ UnmountPagination

OrderUnderTest ==
    /\ underTest = "order"
    /\ \/ MountOrder
       \/ OrderPersistEffect
       \/ MoveColumnById

WidthsUnderTest ==
    /\ underTest = "widths"
    /\ \/ MountResize
       \/ ResizeEffects
       \/ PointerDown /\ gestures = 0
       \/ PointerMove
       \/ PointerUp

VisibilityUnderTest ==
    /\ underTest = "visibility"
    /\ \/ MountVisibility
       \/ VisPersistEffect
       \/ ToggleColumn
       \/ UnmountVisibility

StorageFailureNext ==
    \/ PaginationUnderTest
    \/ OrderUnderTest
    \/ WidthsUnderTest
    \/ VisibilityUnderTest
    \/ StorageTurns

\* The controllers on a failing storage
InitStorageFailure == StorageFailureInit

SpecStorageFailure == InitStorageFailure /\ [][StorageFailureNext]_vars

\* Two DataTable instances on one origin

MaxKeyParts == 2     \* a storageKey is made of at most MaxKeyParts parts

\* The parts a storageKey is made of: strings that are equal exactly when
\* their sequences of these parts are equal
KeyParts == {"y", "-order", "pagination-"}

StorageKeys == SeqsUpTo(KeyParts, MaxKeyParts) \ {<<>>}

\* `pagination-${storageKey}`
PaginationKey(storageKey) == <<"pagination-">> \o storageKey

\* `column-visibility-${storageKey}`
VisibilityKey(storageKey) == <<"column-visibility-">> \o storageKey

\* `${storageKey}-order`
OrderKey(storageKey) == storageKey \o <<"-order">>

\* `table-columns-${tableId}`, tableId being the storageKey
WidthsKey(storageKey) == <<"table-columns-">> \o storageKey

\* The key the hook of a table with this storageKey reads and writes
KeyOf(hook, storageKey) ==
    CASE hook = "pagination" -> PaginationKey(storageKey)
      [] hook = "visibility" -> VisibilityKey(storageKey)
      [] hook = "order" -> OrderKey(storageKey)
      [] hook = "widths" -> WidthsKey(storageKey)

Tables == {1, 2}

Written(table, hook) == [table |-> table, hook |-> hook]

Unwritten == [table |-> 0, hook |-> "none"]

\* Two tables with different storageKey props, nothing stored
StorageKeysInit ==
    /\ tableKeys \in {p \in StorageKeys \X StorageKeys : p[1] # p[2]}
    /\ sharedStorage = [k \in {KeyOf(h, tableKeys[t]) : h \in Controllers, t \in Tables}
                            |-> Unwritten]
    /\ storageThrows = FALSE
    /\ underTest = "none"
    /\ raised = FALSE

\* The persist effect of a hook of one of the tables: localStorage.setItem
TablePersists ==
    \E t \in Tables, h \in Controllers :
        /\ sharedStorage' =
               [sharedStorage EXCEPT ![KeyOf(h, tableKeys[t])] = Written(t, h)]
        /\ UNCHANGED <<pgVars, ordVars, dragVars, rsVars, visVars, selVars, lvVars,
                       storageThrows, underTest, tableKeys, raised>>

StorageKeysNext ==
    \/ TablePersists

InitStorageKeys == StorageKeysInit /\ PaginationIdle /\ OrderIdle /\ DragIdle /\ ResizeIdle /\ VisibilityIdle /\ SelectionIdle /\ LogViewerIdle

SpecStorageKeys == InitStorageKeys /\ [][StorageKeysNext]_vars

---------------------------------------------------------------------------
\* Properties of usePagination (SpecPagination)

\* C1: once the effects of the committed render have run, the page is in
\* range: 1 <= page <= max(1, ceil(n / pageSize)), i.e. the page is 1 or the
\* pages before it do not exhaust the data.
C1_PageInRange ==
    (pgMounted /\ ~pgDirty /\ pageSize >= 1) =>
        /\ page >= 1
        /\ (page = 1 \/ (page - 1) * pageSize < dataLen)

\* The data shrank below the current page and the clamp effect brought the
\* page down to a last page other than the first
C1_Witness ==
    /\ pgMounted /\ ~pgDirty
    /\ pgLastOp = "clamp"
    /\ page > 1
    /\ page * pageSize >= dataLen

---------------------------------------------------------------------------
\* Properties of the load of useColumnOrder (SpecOrderLoad)

\* Number of occurrences of x in s
Count(s, x) == Cardinality({i \in 1..Len(s) : s[i] = x})

\* C2 (as claimed): for any canonical order and any stored list, the order
\* computed at load holds every canonical id exactly once and no other id.
C2_LoadIsPermutation ==
    ordLastOp = "load" =>
        /\ \A id \in Range(defaultOrder) : Count(columnOrder, id) = 1
        /\ Range(columnOrder) \subseteq Range(defaultOrder)

\* C3: reconciling the order computed at load against the canonical order
\* again gives the same order.
C3_ReconcileIdempotent ==
    ordLastOp = "load" =>
        LoadOrder(StoredList(columnOrder), defaultOrder) = columnOrder

\* A load that dropped an unknown id and inserted a missing column, giving
\* an order other than the canonical one
C3_Witness ==
    /\ ordLastOp = "load"
    /\ loadedFrom.kind = "list"
    /\ UnknownId \in Range(loadedFrom.val)
    /\ \E id \in Range(defaultOrder) : id \notin Range(loadedFrom.val)
    /\ columnOrder # defaultOrder

\* s is a subsequence of the canonical order c
IsSubsequenceOf(s, c) ==
    /\ Range(s) \subseteq Range(c)
    /\ \A i, j \in 1..Len(s) : i < j => IndexOf(c, s[i]) < IndexOf(c, s[j])

\* C4: at load the surviving stored ids keep their stored relative order;
\* each canonical id missing from the stored list stands immediately before
\* the first element with a greater canonical index, or last when there is
\* none; canonical [a,b,c,d] with stored [b,a] gives [b,a,c,d]; a stored
\* subsequence of the canonical order gives the canonical order.
C4_MissingInsertedByRank ==
    (ordLastOp = "load" /\ loadedFrom.kind = "list") =>
        LET S == loadedFrom.val
            C == defaultOrder
            R == columnOrder
        IN  /\ SelectSeq(R, LAMBDA id : id \in Range(S))
                 = SelectSeq(S, LAMBDA id : id \in Range(C))
            /\ \A m \in Range(C) \ Range(S) :
                 \E p \in 1..Len(R) :
                    /\ R[p] = m
                    /\ \A j \in 1..(p - 1) : IndexOf(C, R[j]) < IndexOf(C, m)
                    /\ p < Len(R) => IndexOf(C, R[p + 1]) > IndexOf(C, m)
            /\ (C = <<"a", "b", "c", "d">> /\ S = <<"b", "a">>)
                 => R = <<"b", "a", "c", "d">>
            /\ IsSubsequenceOf(S, C) => R = C

\* The scenario of the specification: canonical [a,b,c,d], stored [b,a]
C4_Witness ==
    /\ ordLastOp = "load"
    /\ loadedFrom = StoredList(<<"b", "a">>)
    /\ defaultOrder = <<"a", "b", "c", "d">>
    /\ columnOrder = <<"b", "a", "c", "d">>

---------------------------------------------------------------------------
\* Properties of drag-and-drop reordering (SpecDrag)

\* The last event was a drop that found a dragged column and a drop index
ValidDrop ==
    /\ lastEvent.type = "drop"
    /\ lastDrop.draggedId # NoId
    /\ lastDrop.dropIndex # NoIndex

\* C7 (as claimed): moveColumn is never called with a locked column as the
\* moved column, and a drop on the header of a locked column never results
\* in a moveColumn call.
C7_LockedNeverMovedNorTarget ==
    (lastEvent.type = "drop" /\ lastDrop.called) =>
        /\ At(orderBefore, lastDrop.from) \notin LockedList
        /\ lastEvent.col \notin LockedList

\* C8: a gesture makes at most one moveColumn call; a drop calls
\* moveColumn(from, to), once, exactly when it has a dragged column and a
\* drop index and the drop position is not the dragged column's own place
\* (drop index = source index or source index + 1), and then from is the
\* source index, to the corrected drop index, and the order changes.
C8_OneMovePerGesture ==
    /\ moveCalls <= 1
    /\ lastEvent.type = "drop" =>
         LET f == IndexOf(orderBefore, lastDrop.draggedId)
             d == lastDrop.dropIndex
         IN  /\ lastDrop.called <=> (ValidDrop /\ d \notin {f, f + 1})
             /\ lastDrop.called =>
                  /\ moveCalls = 1
                  /\ lastDrop.from = f
                  /\ lastDrop.to = (IF f < d THEN d - 1 ELSE d)
                  /\ columnOrder # orderBefore
             /\ ~lastDrop.called => columnOrder = orderBefore

\* A drop that called moveColumn once
C8_Witness ==
    /\ lastEvent.type = "drop"
    /\ lastDrop.called
    /\ moveCalls = 1
    /\ columnOrder # orderBefore

\* C9: after a drop with insertion index d of a column dragged from another
\* index, the dragged column stands immediately before the column that was
\* at index d (last when d is the length), and the other columns keep their
\* relative order.
C9_DropPlacesBeforeTarget ==
    (ValidDrop /\ lastDrop.dropIndex # IndexOf(orderBefore, lastDrop.draggedId)) =>
        LET id == lastDrop.draggedId
            d == lastDrop.dropIndex
            p == IndexOf(columnOrder, id)
        IN  /\ Len(columnOrder) = Len(orderBefore)
            /\ p # -1
            /\ IF d = Len(orderBefore)
               THEN p = Len(columnOrder) - 1
               ELSE p + 1 < Len(columnOrder) /\ At(columnOrder, p + 1) = At(orderBefore, d)
            /\ SelectSeq(columnOrder, LAMBDA c : c # id)
                 = SelectSeq(orderBefore, LAMBDA c : c # id)

\* A committed drop to the right of the source, where the index correction
\* applies
C9_Witness ==
    /\ ValidDrop
    /\ lastDrop.called
    /\ lastDrop.from < lastDrop.dropIndex
    /\ lastDrop.to = lastDrop.dropIndex - 1
    /\ lastDrop.dropIndex < Len(orderBefore)

---------------------------------------------------------------------------
\* Properties of useResizableColumns (SpecResize)

\* The minimum width of a column: the configured one, 50 when unconfigured
MinWidthOf(key) ==
    IF GetColumnConfig(key).minWidth # 0 THEN GetColumnConfig(key).minWidth ELSE 50

\* A maximum width is configured for the column
HasMaxWidth(key) == GetColumnConfig(key).maxWidth # 0

\* C5 (as claimed): in every state of the mounted hook every column's
\* width is at least its minimum width and, when a maximum is configured,
\* at most that maximum.
C5_WidthsWithinLimits ==
    rsMounted =>
        \A k \in RsKeys :
            /\ widths[k] >= MinWidthOf(k)
            /\ HasMaxWidth(k) => widths[k] <= GetColumnConfig(k).maxWidth

\* C6: once the drag threshold has been crossed, a pointer move at x sets
\* the width of the column being resized to
\* clamp(startWidth + (x - startX), m, M or +infinity), which is never below
\* m and never above M.
C6_MoveSetsClampedWidth ==
    (rsLastOp = "move" /\ hasDragged) =>
        LET m == MinWidthOf(activeColumn)
            M == GetColumnConfig(activeColumn).maxWidth
            v == startWidth + (rsLastX - startX)
            w == widths[activeColumn]
        IN  /\ activeColumn \in RsKeys
            /\ w = (IF v < m THEN m ELSE IF HasMaxWidth(activeColumn) /\ v > M THEN M ELSE v)
            /\ w >= m
            /\ HasMaxWidth(activeColumn) => w <= M

\* A drag far to the right on the column with a maximum, stopped at the
\* maximum
C6_Witness ==
    /\ rsLastOp = "move" /\ hasDragged
    /\ activeColumn = "a"
    /\ rsLastX - startX > 900
    /\ widths["a"] = 300

---------------------------------------------------------------------------
\* Properties of useColumnVisibility (SpecVisibility)

\* C10: a locked column is visible in every state; toggleColumn of a locked
\* column changes nothing; hideAllColumns leaves exactly the locked columns
\* visible.
C10_LockedAlwaysVisible ==
    /\ visMounted => \A id \in VisIds : visColumns[id].locked => IsColumnVisible(id)
    /\ (visLastOp.op = "toggle" /\ visLastOp.col \in VisIds
            /\ visColumns[visLastOp.col].locked)
         => visibleColumns = visPrev
    /\ visLastOp.op = "hideAll" =>
         \A id \in VisIds : IsColumnVisible(id) <=> visColumns[id].locked

\* hideAllColumns on a table with a locked column and a column that was
\* visible and is not locked
C10_Witness ==
    /\ visLastOp.op = "hideAll"
    /\ \E l, u \in VisIds :
          /\ visColumns[l].locked
          /\ ~visColumns[u].locked
          /\ visPrev[u] = "true"
          /\ visibleColumns[u] = "false"
          /\ IsColumnVisible(l)

---------------------------------------------------------------------------
\* Properties of the DataTable row selection (SpecSelection)

\* C11: after selectAll() on page k the selection set is exactly the set of
\* row ids of page k's slice (the rows after the first (k-1)*pageSize and up
\* to the k*pageSize-th), and it stays that set while the user navigates to
\* other pages.
C11_SelectAllIsPageScoped ==
    selLastOp.op = "selectAll" =>
        selectedIds =
            {getRowId(i) : i \in {j \in 1..selLastOp.dataLen :
                                      /\ j > (selLastOp.page - 1) * selLastOp.pageSize
                                      /\ j <= selLastOp.page * selLastOp.pageSize}}

\* selectAll() selected a page that is not the whole data, and the user has
\* navigated to another page since
C11_Witness ==
    /\ selLastOp.op = "selectAll"
    /\ pgLastOp \in {"setPage", "nextPage", "prevPage"}
    /\ PgReady
    /\ page # selLastOp.page
    /\ selectedIds # {}
    /\ Cardinality(selectedIds) < dataLen

---------------------------------------------------------------------------
\* Properties of the LogViewer fetches (SpecLogFetch)

\* The step settles a pending fetch (lvLastOp' names the fetch and its outcome)
SettlesFetch == lvLastOp'.op = "settle" /\ lvLastOp'.fetch \in inflight

\* C12: a log response that arrives after the view has switched to another
\* category than the one its fetch started in, or after the unmount, does not
\* change the entry list, whichever path started the fetch.
C12_StaleResponsesIgnored ==
    [][(/\ SettlesFetch
        /\ lvLastOp'.fetch.kind = "logs"
        /\ (~lvMounted \/ activeCategory # lvLastOp'.fetch.category))
       => logs' = logs]_vars

\* C17: when no fetch of the category effect is pending, loading is false.
C17_LoadingClears ==
    (lvMounted /\ lvDirty = {} /\ \A f \in inflight : f.path # "category") => ~loading

\* C18: a rejected fetch of the category effect or of a polling tick leaves
\* the entry list and the archive list as they were.
C18_RejectionLeavesState ==
    [][(/\ SettlesFetch
        /\ lvLastOp'.outcome = Rejected
        /\ lvLastOp'.fetch.path \in {"category", "poll"})
       => (logs' = logs /\ logFiles' = logFiles)]_vars

\* A fetch of the category effect or a polling tick was rejected while the
\* viewer held entries
C18_Witness ==
    /\ lvLastOp.op = "settle"
    /\ lvLastOp.outcome = Rejected
    /\ lvLastOp.fetch.path \in {"category", "poll"}
    /\ ~lvLastOp.fetch.cancelled
    /\ lvMounted
    /\ logs # <<>>

\* C19: once the latch is set it stays set and no call of onFetchArchives
\* starts any more; a fetch of the archives that was rejected, resolved with
\* nothing or was cancelled leaves the latch as it was.
C19_ArchiveLatch ==
    [][/\ archivesFetchedRef => archivesFetchedRef'
       /\ archivesFetchedRef =>
              \A f \in inflight' :
                  f.kind = "archives" => f.id \in {g.id : g \in inflight}
       /\ (/\ SettlesFetch
           /\ lvLastOp'.fetch.kind = "archives"
           /\ (lvLastOp'.outcome.kind # "value" \/ lvLastOp'.fetch.cancelled))
          => archivesFetchedRef' = archivesFetchedRef]_vars

\* The archives were fetched, the user left the archives and came back: the
\* category effect ran again with the latch set
C19_Witness ==
    /\ archivesFetchedRef
    /\ activeCategory = "archives"
    /\ lvLastOp.op = "effects"
    /\ lvCount.steps >= 2
    /\ logFiles \in ArchiveLists

\* C20: at most one interval is active; none is active once the component is
\* unmounted or, its effects having run, auto-refresh is off, autoRefreshMs is
\* not positive or onFetchLogs is missing; and only an interval of a mounted
\* viewer that polls makes a polling call.
C20_OneIntervalClearedWhenOff ==
    /\ Cardinality(timers) <= 1
    /\ (~lvMounted \/ (lvDirty = {} /\ ~(autoRefreshOn /\ autoRefreshMs > 0 /\ onFetchLogs)))
           => timers = {}
    /\ lvLastOp.op = "tick" =>
           (lvMounted /\ autoRefreshOn /\ autoRefreshMs > 0 /\ onFetchLogs)

\* Auto-refresh was switched off on a viewer whose interval had fired (its
\* fetch is still pending), and the effect has run
C20_Witness ==
    /\ lvMounted /\ lvDirty = {}
    /\ onFetchLogs /\ autoRefreshMs > 0 /\ ~autoRefreshOn
    /\ lvLastOp.op = "effects"
    /\ \E f \in inflight : f.path = "poll"
    /\ timers = {}
    /\ autoRefreshRef = 0

---------------------------------------------------------------------------
\* Properties of the LogViewer entry pipeline (SpecLogPipeline)

\* The last step applied a batch to the entry list: a fetch resolved with it,
\* or the external logs effect ran on a non-empty logs prop
HasAppliedBatch ==
    \/ /\ lvLastOp.op = "settle"
       /\ lvLastOp.fetch.kind = "logs"
       /\ lvLastOp.outcome.kind = "value"
       /\ ~lvLastOp.fetch.cancelled
    \/ lvLastOp.op = "effects" /\ externalLogs # <<>>

AppliedBatch ==
    IF lvLastOp.op = "settle" THEN lvLastOp.outcome.value ELSE externalLogs

\* The entries of a batch that stay entries: its first entry and every entry
\* that is not a frame
Owners(b) == {i \in 1..Len(b) : i = 1 \/ ~IsFrame(b[i].msg)}

\* The last index of the run of frames that follows index i
RunEnd(b, i) ==
    CHOOSE j \in i..Len(b) :
        /\ \A k \in (i + 1)..j : k \notin Owners(b)
        /\ j = Len(b) \/ (j + 1) \in Owners(b)

\* Entry i of the batch with the frames that follow it as its stack
WithItsFrames(b, i) ==
    [ts |-> b[i].ts, msg |-> b[i].msg,
     stack |-> [k \in 1..(RunEnd(b, i) - i) |-> b[i + k].msg]]

CountTs(s, t) == Cardinality({i \in 1..Len(s) : s[i].ts = t})

CountOwnersTs(b, t) == Cardinality({i \in Owners(b) : b[i].ts = t})

Occurrences(s, e) == Cardinality({i \in 1..Len(s) : s[i] = e})

\* C13: when an applied batch has more than maxEntries entries, maxEntries
\* entries are retained and no dropped entry has a later timestamp than a
\* retained one, for either sort direction.
C13_CapKeepsMostRecent ==
    (/\ HasAppliedBatch
     /\ maxEntries > 0
     /\ Cardinality(Owners(AppliedBatch)) > maxEntries)
    => /\ Len(logs) = maxEntries
       /\ \A t1, t2 \in 1..MaxTs :
              (/\ CountTs(logs, t1) < CountOwnersTs(AppliedBatch, t1)
               /\ CountTs(logs, t2) > 0)
              => t1 <= t2

\* C14: after an update of the entry list by a fetched batch, the external
\* logs or a live push, the list is ordered by timestamp: descending when
\* newestFirst, ascending otherwise.
C14_ListOrderedByTimestamp ==
    (HasAppliedBatch \/ lvLastOp.op = "push")
    => \A i, j \in 1..Len(logs) :
           i < j => IF newestFirst THEN logs[i].ts >= logs[j].ts
                    ELSE logs[i].ts <= logs[j].ts

\* C15: with maxEntries = N > 0 and more than N entries (none of them a
\* stack-trace frame) pushed on the live subscription, the list holds exactly
\* N entries and no pushed entry that is missing from it has a later
\* timestamp than an entry it holds.
C15_LivePushesKeepMostRecent ==
    (/\ maxEntries > 0
     /\ Len(pushed) > maxEntries
     /\ \A i \in 1..Len(pushed) : ~IsFrame(pushed[i].msg))
    => /\ Len(logs) = maxEntries
       /\ \A t1, t2 \in 1..MaxTs :
              (CountTs(logs, t1) < CountTs(pushed, t1) /\ CountTs(logs, t2) > 0)
              => t1 <= t2

\* C16 as stated: every frame of an applied batch that has a preceding entry
\* has a nearest preceding entry that is not a frame, and the list holds that
\* entry with the frames that follow it as its stack (no cap).
C16_FramesJoinNearestNonFrame ==
    (HasAppliedBatch /\ maxEntries = 0)
    => \A j \in 2..Len(AppliedBatch) :
           IsFrame(AppliedBatch[j].msg)
           => \E i \in 1..(j - 1) :
                  /\ ~IsFrame(AppliedBatch[i].msg)
                  /\ \A k \in (i + 1)..j : IsFrame(AppliedBatch[k].msg)
                  /\ Occurrences(logs, WithItsFrames(AppliedBatch, i)) > 0

\* C16 amended: the entries of the list after an applied batch are the
\* batch's first entry and its entries that are not frames, each with the
\* frames that follow it, in input order, as its stack; a frame with a
\* preceding entry is no entry of its own.  With a cap the list holds some of
\* these entries, without one all of them.
C16_FramesJoinLastKeptEntry ==
    HasAppliedBatch
    => /\ \A k \in 1..Len(logs) :
              Occurrences(logs, logs[k])
                  <= Cardinality({i \in Owners(AppliedBatch) :
                                     WithItsFrames(AppliedBatch, i) = logs[k]})
       /\ maxEntries = 0 => Len(logs) = Cardinality(Owners(AppliedBatch))

\* A fetch resolved with an error line followed by two frames: the list is one
\* entry whose stack is the two frames
C16_Witness ==
    /\ lvLastOp.op = "settle"
    /\ HasAppliedBatch
    /\ Len(AppliedBatch) = 3
    /\ ~IsFrame(AppliedBatch[1].msg)
    /\ AppliedBatch[2].msg = "  at f"
    /\ AppliedBatch[3].msg = "  at g"
    /\ Len(logs) = 1
    /\ logs[1].msg = "Error X"
    /\ logs[1].stack = <<"  at f", "  at g">>

---------------------------------------------------------------------------
\* Properties of the resize gesture (SpecResizeGesture)

\* A handle was pressed and the threshold has not been crossed since
Armed == rsMounted /\ activeColumn # NoId /\ ~hasDragged

\* The step is a pointerdown on a handle
IsPointerDownStep == gestures' # gestures

\* The step is a pointermove delivered to the document listener
IsPointerMoveStep == rsLastOp' = "move" /\ ~rsDirty /\ "pointermove" \in listeners

\* The step is a pointerup or a pointercancel delivered to the document listener
IsPointerUpStep ==
    /\ rsLastOp' \in {"up", "cancel"}
    /\ ~rsDirty
    /\ listeners # {}
    /\ listeners' = {}

\* C21 as stated: whenever the gesture is armed, isResizing is false; the
\* pointerdown and the moves of less than 3px from the start X leave the body
\* styles and the widths as they were; a move of 3px or more makes the gesture
\* resizing with the col-resize styles; a pointerup or pointercancel leaves
\* the widths alone, ends with isResizing false and gives the body the styles
\* it had before the gesture.
C21_GesturePhases ==
    [][/\ Armed' => ~isResizing'
       /\ IsPointerDownStep => (bodyStyle' = bodyStyle /\ widths' = widths)
       /\ (IsPointerMoveStep /\ ~hasDragged /\ Abs(rsLastX' - startX) < DRAG_THRESHOLD)
              => (/\ ~hasDragged'
                  /\ bodyStyle' = bodyStyle
                  /\ widths' = widths
                  /\ isResizing' = isResizing)
       /\ (IsPointerMoveStep /\ activeColumn # NoId
                             /\ Abs(rsLastX' - startX) >= DRAG_THRESHOLD)
              => (hasDragged' /\ isResizing' /\ bodyStyle' = ResizingBody)
       /\ IsPointerUpStep
              => (~isResizing' /\ widths' = widths /\ bodyStyle' = pageBody)]_vars

\* C21 amended: an idle mounted controller is not resizing; a pointerdown
\* that finds the controller idle leaves isResizing false, the body styles
\* and the widths as they were, and so does every move of less than 3px from
\* the start X before the drag; a move of 3px or more makes it resizing with
\* the col-resize styles; a pointerup or pointercancel leaves the widths
\* alone, ends idle with isResizing false and clears the cursor and
\* user-select of the body.
C21_GesturePhasesFromIdle ==
    [][/\ (rsMounted' /\ activeColumn' = NoId) => ~isResizing'
       /\ (IsPointerDownStep /\ activeColumn = NoId)
              => (Armed' /\ ~isResizing' /\ bodyStyle' = bodyStyle /\ widths' = widths)
       /\ IsPointerDownStep => (bodyStyle' = bodyStyle /\ widths' = widths)
       /\ (IsPointerMoveStep /\ ~hasDragged /\ Abs(rsLastX' - startX) < DRAG_THRESHOLD)
              => (/\ ~hasDragged'
                  /\ bodyStyle' = bodyStyle
                  /\ widths' = widths
                  /\ isResizing' = isResizing)
       /\ (IsPointerMoveStep /\ activeColumn # NoId
                             /\ Abs(rsLastX' - startX) >= DRAG_THRESHOLD)
              => (hasDragged' /\ isResizing' /\ bodyStyle' = ResizingBody)
       /\ IsPointerUpStep
              => (/\ ~isResizing'
                  /\ activeColumn' = NoId
                  /\ widths' = widths
                  /\ bodyStyle' = PlainBody)]_vars

\* The only gesture so far was a press, a move of less than 3px and a
\* release: the widths are the loaded ones
C21_Witness ==
    /\ gestures = 1
    /\ rsLastOp = "up"
    /\ rsLastX # startX
    /\ Abs(rsLastX - startX) < DRAG_THRESHOLD
    /\ ~isResizing
    /\ rsStore = StoredWidths(widths)
    /\ widths = widthsRef
    /\ bodyStyle = pageBody

\* C22: the three document listeners are registered together or not at all;
\* they are registered only on a mounted hook between a pointerdown and the
\* next pointerup or pointercancel; none is registered after a pointerup, a
\* pointercancel or the unmount.
C22_ListenersOnlyDuringGesture ==
    /\ listeners \in {{}, AllListeners}
    /\ listeners # {} => (rsMounted /\ activeColumn # NoId /\ gestures > 0)
    /\ rsLastOp \in {"up", "cancel", "unmount"} => listeners = {}
    /\ ~rsMounted => listeners = {}

\* The hook was unmounted in the middle of a gesture that was resizing
C22_Witness ==
    /\ rsLastOp = "unmount"
    /\ ~rsMounted
    /\ activeColumn # NoId
    /\ hasDragged
    /\ isResizing
    /\ listeners = {}

---------------------------------------------------------------------------
\* Properties of the navigation of usePagination (SpecPagination,
\* SpecPaginationLive)

\* The rows of page t of n rows in pages of size rows: the slice of the last
\* page when t is the last page
PageSlice(n, size, t) ==
    [k \in 1..(Min(t * size, n) - (t - 1) * size) |-> (t - 1) * size + k]

\* The page is out of range after a change that left t pages
OutOfRange(t) == pgMounted /\ totalPages = t /\ page > t

\* setPageSize left t pages, fewer than the page it was called on
PageSizeGrewBelowPage(t) ==
    /\ pgMounted /\ pgDirty
    /\ pgLastOp = "setPageSize"
    /\ totalPages = t
    /\ pgLastCall.page > t

\* The page is the last of t pages and the slice is that page's
ClampedTo(t) ==
    /\ page = t
    /\ totalPages = t
    /\ paginatedData = PageSlice(dataLen, pageSize, t)

C24_SetPageClamps ==
    LET nav == {"setPage", "nextPage", "prevPage", "firstPage", "lastPage"}
    IN  /\ pgLastOp \in nav => page = Min(Max(pgLastCall.arg, 1), totalPages)
        /\ (pgLastOp = "nextPage" /\ pgLastCall.page = totalPages) => page = pgLastCall.page
        /\ (pgLastOp = "prevPage" /\ pgLastCall.page = 1) => page = 1
        /\ pgLastOp = "firstPage" => page = 1
        /\ pgLastOp = "lastPage" => page = totalPages
        /\ (pgLastOp \in nav /\ dataLen = 0) => (page = 1 /\ paginatedData = <<>>)

\* setPage was called with a page below 1 on a page other than the first
C24_Witness ==
    /\ pgLastOp = "setPage"
    /\ pgLastCall.arg < 1
    /\ pgLastCall.page > 1
    /\ page = 1
    /\ totalPages > 1

\* C25: after setPageSize(s) the page size is s and the page is 1, whatever
\* the page was when it was called.
C25_SetPageSizeResetsPage ==
    pgLastOp = "setPageSize" => (pageSize = pgLastCall.arg /\ page = 1)

\* setPageSize was called on a page other than the first and left more than
\* one page
C25_Witness ==
    /\ pgLastOp = "setPageSize"
    /\ pgLastCall.page > 1
    /\ totalPages > 1
    /\ pageSize = pgLastCall.arg
    /\ page = 1

\* C26: a value the hook wrote to storage holds the page size and nothing
\* else, namely the page size of the state; a mount starts on page 1 with
\* the page size that is stored.
C26_OnlyPageSizePersisted ==
    /\ pgStore.kind = "obj" => DOMAIN pgStore = {"kind", "pageSize"}
    /\ (pgMounted /\ ~pgDirty) => pgStore = [kind |-> "obj", pageSize |-> pageSize]
    /\ pgLastOp = "mount" =>
           /\ page = 1
           /\ (pgStore.kind = "obj" /\ pgStore.pageSize # 0) => pageSize = pgStore.pageSize

\* A remount after the user had left page 1: page 1 again, with a persisted
\* page size that is not the pageSize option
C26_Witness ==
    /\ pgLastOp = "mount"
    /\ PgReady
    /\ pgLastCall.arg > 1
    /\ pgLastCall.page > 1
    /\ page = 1
    /\ pageSize # initialPageSize
    /\ pgStore = [kind |-> "obj", pageSize |-> pageSize]

---------------------------------------------------------------------------
\* Properties of the load of useColumnVisibility (SpecVisibility)

\* The hook has just loaded a stored map (the persist effect of the first
\* render has not run yet, so visStore is still what the load read)
LoadedStoredMap ==
    /\ visLastOp.op = "load"
    /\ visMounted /\ visDirty
    /\ visStore.kind = "obj"

\* C27: after the load of a stored map P, each configured column is true if
\* it is locked, else P[id] if P has an entry for it, else its default; an id
\* of P that is no configured column has no entry in the state.
C27_LoadMergesStoredMap ==
    LoadedStoredMap =>
        LET P == visStore.val
        IN  /\ \A id \in VisIds :
                  visibleColumns[id] =
                      CASE visColumns[id].locked -> "true"
                        [] ~visColumns[id].locked /\ P[id] # "undef" -> P[id]
                        [] OTHER -> JsBool(visColumns[id].defaultVisible)
            /\ \A k \in VisKeys \ VisIds : visibleColumns[k] = "undef"

\* A load of a map that hides a locked column, has no entry for a column
\* hidden by default and has an entry for an unknown id
C27_Witness ==
    /\ LoadedStoredMap
    /\ visStore.val[UnknownId] = "false"
    /\ visibleColumns[UnknownId] = "undef"
    /\ \E l, u \in VisIds :
          /\ visColumns[l].locked
          /\ visStore.val[l] = "false"
          /\ visibleColumns[l] = "true"
          /\ ~visColumns[u].locked
          /\ ~visColumns[u].defaultVisible
          /\ visStore.val[u] = "undef"
          /\ visibleColumns[u] = "false"

---------------------------------------------------------------------------
\* Properties of the selection flags of DataTable (SpecSelection)

\* The row ids of the current page
PageRowIds == {getRowId(paginatedData[k]) : k \in 1..Len(paginatedData)}

\* C29: isSomeSelected is true iff at least one but not all rows of the
\* current page are selected, isAllSelected iff the page is non-empty and
\* all its rows are selected; they are never true together, and selected
\* ids of rows off the page change neither.
C29_SelectionFlags ==
    /\ isSomeSelected <=> /\ PageRowIds \cap selectedIds # {}
                          /\ ~(PageRowIds \subseteq selectedIds)
    /\ isAllSelected <=> (PageRowIds # {} /\ PageRowIds \subseteq selectedIds)
    /\ ~(isSomeSelected /\ isAllSelected)
    /\ isSomeSelected = IsSomeSelectedFor(selectedIds \cap PageRowIds)
    /\ isAllSelected = IsAllSelectedFor(selectedIds \cap PageRowIds)

\* Some but not all rows of a page of two or more rows are selected, and so
\* is a row of another page
C29_Witness ==
    /\ PgReady
    /\ Len(paginatedData) >= 2
    /\ isSomeSelected
    /\ ~isAllSelected
    /\ selectedIds \ PageRowIds # {}

---------------------------------------------------------------------------
\* Properties of moveColumn and moveColumnById (SpecOrderMove)

\* A step that is a moveColumn call
IsMoveColumnStep == OrdReady /\ ordLastOp' = "moveColumn"

\* Both arrays hold the same elements the same number of times
IsPermutationOf(s, t) ==
    /\ Len(s) = Len(t)
    /\ \A x \in Range(s) \cup Range(t) : Count(s, x) = Count(t, x)

\* C30: moveColumn(from, to) with indices of the array takes the element at
\* index from out and puts it back at index to, all other elements keeping
\* their relative order; and whatever moveColumn and moveColumnById calls
\* were made, with whatever indices, the column order is a permutation of
\* the order the hook loaded.
C30_MoveKeepsPermutation ==
    /\ [](ordMounted => IsPermutationOf(columnOrder, LoadOrder(loadedFrom, defaultOrder)))
    /\ [][(/\ IsMoveColumnStep
           /\ ordLastCall'.from \in 0..(Len(columnOrder) - 1)
           /\ ordLastCall'.to \in 0..(Len(columnOrder) - 1))
          => /\ At(columnOrder', ordLastCall'.to) = At(columnOrder, ordLastCall'.from)
             /\ SpliceRemove(columnOrder', ordLastCall'.to)
                   = SpliceRemove(columnOrder, ordLastCall'.from)]_vars

\* A column was moved from the front to the third place of an order of
\* three or more columns
C30_Witness ==
    /\ OrdReady
    /\ ordLastCall = OrdCall("moveColumn", 0, 2)
    /\ Len(columnOrder) >= 3
    /\ columnOrder # LoadOrder(loadedFrom, defaultOrder)
    /\ At(columnOrder, 2) = At(LoadOrder(loadedFrom, defaultOrder), 0)

---------------------------------------------------------------------------
\* Properties of the controllers on a failing storage (SpecStorageFailure)

\* A step that mounts a controller whose read of the storage fails
FailedLoadStep(mounted, mountedNext, stored) ==
    ~mounted /\ mountedNext /\ ReadThrows(stored)

\* A step that runs a persist effect whose write fails
FailedWriteStep(dirty, dirtyNext) == storageThrows /\ dirty /\ ~dirtyNext

\* C28: whether the storage throws on the read, holds a string that is not
\* JSON, or throws on the write, no controller raises anything: a failed or
\* corrupt read leaves the controller with the state it takes when nothing
\* is stored, and a failed write leaves the in-memory change in place.
C28_StorageFailuresSwallowed ==
    /\ [](~raised)
    /\ []((PgReady /\ pgLastOp = "setPageSize") => pageSize = pgLastCall.arg)
    /\ []((/\ VisReady
           /\ visLastOp.op = "toggle"
           /\ visLastOp.col \in VisIds
           /\ ~visColumns[visLastOp.col].locked)
          => visibleColumns[visLastOp.col] = JsNot(visPrev[visLastOp.col]))
    /\ [][/\ FailedLoadStep(pgMounted, pgMounted', pgStore)
              => page' = 1 /\ pageSize' = LoadPageSize(None, initialPageSize)
          /\ FailedLoadStep(ordMounted, ordMounted', ordStore)
              => columnOrder' = LoadOrder(None, defaultOrder)
          /\ FailedLoadStep(rsMounted, rsMounted', rsStore)
              => widths' = LoadWidths(None)
          /\ FailedLoadStep(visMounted, visMounted', visStore)
              => visibleColumns' = LoadVisibility(None, visColumns)
          /\ FailedWriteStep(pgDirty, pgDirty') => pageSize' = pageSize
          /\ FailedWriteStep(ordDirty, ordDirty') => columnOrder' = columnOrder
          /\ FailedWriteStep(rsDirty, rsDirty') => widths' = widths
          /\ FailedWriteStep(visDirty, visDirty') => visibleColumns' = visibleColumns]_vars

\* The visibility controller found an unparsable value, a column was
\* toggled and the write of the new map failed: the map in memory differs
\* from the defaults and the storage still holds the unparsable value
C28_Witness ==
    /\ underTest = "visibility"
    /\ storageThrows
    /\ VisReady
    /\ visLastOp.op = "toggle"
    /\ visStore = Garbage
    /\ visibleColumns # VisDefaults(visColumns)
    /\ ~raised

---------------------------------------------------------------------------
\* Properties of moveColumnById (SpecOrderMove)

\* The array with the elements at indices i and j exchanged
Swapped(s, i, j) ==
    [k \in 1..Len(s) |-> IF k = i + 1 THEN s[j + 1] ELSE IF k = j + 1 THEN s[i + 1] ELSE s[k]]

\* C31: moveColumnById(id, direction) exchanges the column with its left or
\* right neighbour; the order stays as it is when the column is first
\* (left), last (right) or not in the order; and for a column not at the
\* bound, left then right, or right then left, gives the original order.
C31_MoveByIdSwapsNeighbours ==
    ordMounted =>
        \A id \in Range(ColumnIds) \cup {UnknownId} :
            LET cur == IndexOf(columnOrder, id)
                last == Len(columnOrder) - 1
                left == MovedById(columnOrder, id, "left")
                right == MovedById(columnOrder, id, "right")
            IN  /\ cur = -1 => left = columnOrder /\ right = columnOrder
                /\ cur = 0 => left = columnOrder
                /\ cur = last => right = columnOrder
                /\ cur > 0 => /\ left = Swapped(columnOrder, cur, cur - 1)
                              /\ MovedById(left, id, "right") = columnOrder
                /\ (cur >= 0 /\ cur < last)
                      => /\ right = Swapped(columnOrder, cur, cur + 1)
                         /\ MovedById(right, id, "left") = columnOrder

---------------------------------------------------------------------------
\* Properties of the storage keys of two tables (SpecStorageKeys)

\* C32: with different storageKey props, no key of one table is a key of
\* the other, so the value under a key of a table was written by nobody or
\* by that table.
C32_DistinctKeysNeverCollide ==
    /\ \A h1, h2 \in Controllers :
           KeyOf(h1, tableKeys[1]) # KeyOf(h2, tableKeys[2])
    /\ \A t \in Tables, h \in Controllers :
           sharedStorage[KeyOf(h, tableKeys[t])].table \in {0, t}

---------------------------------------------------------------------------
\* Properties of locked columns under drag and drop (SpecDrag)

\* C33: a column of lockedColumns keeps its index in the column order
\* through every drag-and-drop gesture.
C33_LockedKeepsIndex ==
    [][\A c \in lockedColumns : IndexOf(columnOrder', c) = IndexOf(columnOrder, c)]_vars

\* 'select' leads the order and 'actions' ends it
SelectFirstActionsLast(order) ==
    /\ Len(order) >= 2
    /\ At(order, 0) = "select"
    /\ At(order, Len(order) - 1) = "actions"

\* C38: when 'select' is at index 0 and 'actions' at the last index, no
\* drag-and-drop gesture changes that.
C38_SelectAndActionsStay ==
    [][SelectFirstActionsLast(columnOrder) => SelectFirstActionsLast(columnOrder')]_vars

\* A drop moved a data column of a table that has both special columns
C38_Witness ==
    /\ lastEvent.type = "drop"
    /\ lastDrop.called
    /\ columnOrder # orderBefore
    /\ SelectFirstActionsLast(orderBefore)
    /\ SelectFirstActionsLast(columnOrder)

---------------------------------------------------------------------------
\* Properties of the persistence of the four controllers

\* C34: once the effects of an operation have run, the value under the key
\* of a controller is its in-memory state (page size, order list, width
\* map, visibility map), and a mount on that value with the same column
\* definitions gives the same state again (the page number aside).
C34_PersistenceRoundTrips ==
    /\ PgReady => /\ pgStore = PersistedState(page, pageSize)
                  /\ LoadPageSize(pgStore, initialPageSize) = pageSize
    /\ OrdReady => /\ ordStore = StoredList(columnOrder)
                   /\ LoadOrder(ordStore, defaultOrder) = columnOrder
    /\ RsReady => /\ rsStore = StoredWidths(widths)
                  /\ LoadWidths(rsStore) = widths
    /\ VisReady => /\ visStore = StoredVisibility(visibleColumns)
                   /\ LoadVisibility(visStore, visColumns) = visibleColumns

---------------------------------------------------------------------------
\* Properties of the visibility map (SpecVisibility)

\* C37: in every state of the mounted hook, and for every column of the
\* column configs, the entry of visibleColumns is what isColumnVisible
\* answers.
C37_MapAgreesWithIsColumnVisible ==
    visMounted => \A id \in VisIds : visibleColumns[id] = JsBool(IsColumnVisible(id))

---------------------------------------------------------------------------
\* Properties of the slices of usePagination (SpecPagination)

\* The slices of pages 1..t, one after the other
RECURSIVE SlicesUpTo(_)
SlicesUpTo(t) ==
    IF t = 0 THEN <<>> ELSE SlicesUpTo(t - 1) \o PaginatedDataOf(t, pageSize, dataLen)

\* The slice is data[(page-1)*s .. min(page*s, n)), and the slices of pages
\* 1..totalPages are disjoint, of at most s items, and together the data
SlicesPartitionData ==
    /\ paginatedData = PageSlice(dataLen, pageSize, page)
    /\ \A t \in 1..totalPages : Len(PaginatedDataOf(t, pageSize, dataLen)) <= pageSize
    /\ \A t, u \in 1..totalPages :
           t # u => Range(PaginatedDataOf(t, pageSize, dataLen))
                       \cap Range(PaginatedDataOf(u, pageSize, dataLen)) = {}
    /\ SlicesUpTo(totalPages) = [k \in 1..dataLen |-> k]

\* C35 (as stated): on every render the slices partition the data, and for
\* n > 0 the displayed indices satisfy
\* endIndex - startIndex + 1 = length of the current slice.
C35_SlicesAndIndices ==
    pgMounted =>
        /\ SlicesPartitionData
        /\ dataLen > 0 => endIndex - startIndex + 1 = Len(paginatedData)

\* C35 (amended): the same, the relation of the displayed indices for n > 0
\* and a page within 1..totalPages, as it is once the clamp effect has run.
C35_SlicesAndIndicesInRange ==
    pgMounted =>
        /\ SlicesPartitionData
        /\ (dataLen > 0 /\ page <= totalPages)
              => endIndex - startIndex + 1 = Len(paginatedData)

\* The last page of several, and it is not full
C35_Witness ==
    /\ PgReady
    /\ totalPages > 1
    /\ page = totalPages
    /\ Len(paginatedData) > 0
    /\ Len(paginatedData) < pageSize

---------------------------------------------------------------------------
\* Properties of LogViewer hosted by LogsPage (SpecLogsPage)

\* C36: when the API request of a log fetch rejects, whether the fetch came
\* from the mount, a category switch or the Refresh button, the entries the
\* viewer holds stay as they are.
C36_FailedFetchKeepsEntries ==
    [][(/\ SettlesFetch
        /\ lvLastOp'.fetch.kind = "logs"
        /\ lvLastOp'.outcome = Rejected)
       => logs' = logs]_vars

---------------------------------------------------------------------------
\* The cap of the entry list

\* C39: when maxEntries > 0, after every completed update of the entry list
\* (the external logs effect, the category fetch, a polling tick, the Refresh
\* button or a live push, in any interleaving) the list has at most
\* maxEntries entries; only the first render, before any update, shows the
\* logs prop as given
C39_EntriesWithinCap ==
    (lvMounted /\ maxEntries > 0 /\ lvLastOp.op # "mount") => Len(logs) <= maxEntries

\* A header pushed onto a list that was full: the list is still full and ends
\* with the header, while the logs prop holds more entries than the cap
C39_Witness ==
    /\ LvReady
    /\ maxEntries > 0
    /\ lvLastOp.op = "push"
    /\ Len(pushed) >= 2
    /\ ~IsFrame(pushed[Len(pushed)].msg)
    /\ Len(coalesceStackTraces(externalLogs)) > maxEntries
    /\ Len(logs) = maxEntries
    /\ logs[Len(logs)].msg = pushed[Len(pushed)].msg


=============================================================================
